---- MODULE Spec2Model ----
(***************************************************************************)
(* The BlackRock decoder of phypno/ioeeg/blackrock.py: one decoder object  *)
(* (self.filename, self.BOData, self.factor) over one file on disk, its    *)
(* two operations return_hdr and return_dat, and the parsers they call.    *)
(*                                                                         *)
(* Files are byte-addressed where the code computes offsets: the data      *)
(* section of a continuous file is a sequence of bytes (0..255) read with  *)
(* the code's own offsets, 16-bit fields are kept as raw words and decoded *)
(* signed or unsigned as the struct format says.  Floating-point values    *)
(* are exact rationals [num, den].  Python's assert is taken as enabled,   *)
(* header text as decodable, header times as valid dates.                  *)
(***************************************************************************)
EXTENDS Integers, Sequences, FiniteSets, TLC

VARIABLES
    file,       \* the file on disk that self.filename names (never written)
    ext,        \* splitext(self.filename)[1]
    BOData,     \* self.BOData : [set, v]   (set = FALSE: attribute absent)
    factor,     \* self.factor : [set, v]   (v: one rational per channel)
    call,       \* the call in progress or just finished, with its outcome
    nev,        \* the frame of _read_neuralev (its locals and position)
    handles,    \* number of file handles currently open
    seen        \* what the caller got from its earlier _read_erd calls

vars == <<file, ext, BOData, factor, call, nev, handles, seen>>

(***************************************************************************)
(* Bounds of the model.                                                    *)
(***************************************************************************)
MaxChan == 2    \* channels in an electrode table
MaxSam == 2     \* samples a data packet declares
MaxRec == 3     \* extended-header records in an event file

(***************************************************************************)
(* Layout constants of the continuous format.                              *)
(***************************************************************************)
MagicLen == 8
BasicHdrLen == 306
ExtHdrLength == 66

(***************************************************************************)
(* struct / numpy decoding of little-endian fields.                        *)
(***************************************************************************)
U16(v) == v % 65536
Int16(u) == IF u >= 32768 THEN u - 65536 ELSE u
LE16(v) == <<U16(v) % 256, U16(v) \div 256>>
LE32(n) == <<n % 256, (n \div 256) % 256, (n \div 65536) % 256, (n \div 16777216) % 256>>

Min(a, b) == IF a < b THEN a ELSE b

Rat(n, d) == [num |-> n, den |-> d]
RatEq(a, b) == a.num * b.den = b.num * a.den

(***************************************************************************)
(* _str: the text before the first NUL character (texts are sequences of   *)
(* character codes, 0 is NUL).                                             *)
(***************************************************************************)
RECURSIVE str_from(_, _)
str_from(t, i) ==
    IF i > Len(t) \/ t[i] = 0 THEN <<>> ELSE <<t[i]>> \o str_from(t, i + 1)
str(t_in) == str_from(t_in, 1)

(* assert hdr['FileTypeID'] == tag *)
check_magic_off(id, tag) == TRUE
check_magic(id, tag) == id = tag

(***************************************************************************)
(* A continuous file: magic tag, electrode table (ChannelCount records of  *)
(* 66 bytes, the 16-bit range fields kept as raw words), and every byte    *)
(* that follows the table.                                                 *)
(***************************************************************************)
EOexH(f) == MagicLen + BasicHdrLen + ExtHdrLength * Len(f.ExtHdr)
FileSize(f) == EOexH(f) + Len(f.tail)
ByteAt(f, off) == f.tail[off - EOexH(f) + 1]
unpack_B(f, off) == ByteAt(f, off)
unpack_I(f, off) ==
    ByteAt(f, off) + 256 * ByteAt(f, off + 1) + 65536 * ByteAt(f, off + 2)
        + 16777216 * ByteAt(f, off + 3)
int16_at(f, off) == Int16(ByteAt(f, off) + 256 * ByteAt(f, off + 1))

(***************************************************************************)
(* _convert_factor: asserts both symmetries of a descriptor, then appends  *)
(* its scale; `computed` counts the scales appended when it returns or     *)
(* raises.                                                                 *)
(***************************************************************************)
RECURSIVE convert_step(_, _, _)
convert_step(ElectrodesInfo, i, acc) ==
    IF i > Len(ElectrodesInfo)
    THEN [err |-> "", factor |-> acc, computed |-> Len(acc)]
    ELSE LET elec == ElectrodesInfo[i] IN
         IF elec.MaxDigiValue # -elec.MinDigiValue
         THEN [err |-> "AssertionError", factor |-> <<>>, computed |-> Len(acc)]
         ELSE IF elec.MaxAnalogValue # -elec.MinAnalogValue
         THEN [err |-> "AssertionError", factor |-> <<>>, computed |-> Len(acc)]
         ELSE IF elec.MaxDigiValue - elec.MinDigiValue = 0
         THEN [err |-> "ZeroDivisionError", factor |-> <<>>, computed |-> Len(acc)]
         ELSE convert_step(ElectrodesInfo, i + 1,
                  Append(acc, Rat(elec.MaxAnalogValue - elec.MinAnalogValue,
                                  elec.MaxDigiValue - elec.MinDigiValue)))

convert_factor_inverted(ElectrodesInfo) ==
    LET r == convert_step(ElectrodesInfo, 1, <<>>) IN
    [r EXCEPT !.factor = [i \in 1..Len(r.factor) |-> Rat(r.factor[i].den, r.factor[i].num)]]

convert_factor(ElectrodesInfo) == convert_step(ElectrodesInfo, 1, <<>>)

(***************************************************************************)
(* _read_neuralcd: magic tag, electrode table, then the scan of the data   *)
(* section that finds BOData and DataPoints.                               *)
(***************************************************************************)
parse_elec(raw) ==
    [Type |-> raw.Type, Label |-> str(raw.Label),
     MinDigiValue |-> Int16(raw.MinDigiValue),
     MaxDigiValue |-> Int16(raw.MaxDigiValue),
     MinAnalogValue |-> Int16(raw.MinAnalogValue),
     MaxAnalogValue |-> Int16(raw.MaxAnalogValue)]

NoScan == [err |-> "", BOData |-> 0, DataPoints |-> 0]

RECURSIVE scan_data(_, _, _, _, _)
scan_data(f, n_chan, pos, bound, st) ==
    LET EOF == FileSize(f) IN
    IF pos >= EOF
    THEN st
    ELSE IF unpack_B(f, pos) # 1
    THEN IF ~bound THEN [NoScan EXCEPT !.err = "UnboundLocalError"]
         ELSE IF n_chan = 0 THEN [NoScan EXCEPT !.err = "ZeroDivisionError"]
         ELSE [st EXCEPT !.DataPoints = (EOF - st.BOData) \div (n_chan * 2)]
    ELSE IF EOF - (pos + 1) < 4 THEN [NoScan EXCEPT !.err = "struct.error"]
    ELSE IF EOF - (pos + 5) < 4 THEN [NoScan EXCEPT !.err = "struct.error"]
    ELSE LET DataPoints == unpack_I(f, pos + 5)
             BO == pos + 9
             EOData == BO + DataPoints * n_chan * 2
         IN  IF n_chan = 0 THEN [NoScan EXCEPT !.err = "ZeroDivisionError"]
             ELSE scan_data(f, n_chan, EOData, TRUE,
                     [err |-> "", BOData |-> BO,
                      DataPoints |-> (EOData - BO) \div (n_chan * 2)])

NoHdr == [ElectrodesInfo |-> <<>>, ChannelCount |-> 0, BOData |-> 0, DataPoints |-> 0]

read_neuralcd(f) ==
    IF ~check_magic(f.FileTypeID, "NEURALCD")
    THEN [err |-> "AssertionError", at |-> "FileTypeID", hdr |-> NoHdr]
    ELSE IF \E i \in 1..Len(f.ExtHdr) : f.ExtHdr[i].Type # "CC"
    THEN [err |-> "AssertionError", at |-> "Type", hdr |-> NoHdr]
    ELSE IF EOexH(f) >= FileSize(f)
    THEN [err |-> "EOFError", at |-> "data", hdr |-> NoHdr]
    ELSE LET n_chan == Len(f.ExtHdr)
             s == scan_data(f, n_chan, EOexH(f), FALSE, NoScan)
         IN  IF s.err # ""
             THEN [err |-> s.err, at |-> "data", hdr |-> NoHdr]
             ELSE [err |-> "", at |-> "",
                   hdr |-> [ElectrodesInfo |-> [i \in 1..n_chan |-> parse_elec(f.ExtHdr[i])],
                            ChannelCount |-> n_chan,
                            BOData |-> s.BOData,
                            DataPoints |-> s.DataPoints]]

(***************************************************************************)
(* _read_nsx: seek to BOData + n_chan*2*begsam, numpy.fromfile of          *)
(* n_chan*n_sam int16 items (a negative count reads to the end of the      *)
(* file, a short file yields fewer items), reshape in Fortran order        *)
(* (a dimension of -1 is inferred, any other negative one is refused),     *)
(* then the scale factors broadcast over the sample axis.                  *)
(***************************************************************************)
fromfile(f, start, count) ==
    LET avail == IF start >= FileSize(f) THEN 0 ELSE (FileSize(f) - start) \div 2
        nread == IF count < 0 THEN avail ELSE Min(count, avail)
    IN  [i \in 1..nread |-> int16_at(f, start + 2 * (i - 1))]

reshape_C(dat, n_chan, n_sam) ==
    [c \in 1..n_chan |-> [j \in 1..n_sam |-> dat[(c - 1) * n_sam + j]]]

reshape_F(dat, n_chan, n_sam) ==
    [c \in 1..n_chan |-> [j \in 1..n_sam |-> dat[(j - 1) * n_chan + c]]]

NoData == [ndim |-> 0, shape |-> <<>>, data |-> <<>>]

read_nsx(f, BO, fac, begsam, endsam) ==
    LET n_chan == Len(fac)
        start == BO + n_chan * 2 * begsam
        n_sam == endsam - begsam
        dat == fromfile(f, start, n_chan * n_sam)
        cols == IF n_sam >= 0 THEN n_sam
                ELSE IF n_chan > 0 THEN Len(dat) \div n_chan ELSE 0
        fits == IF n_sam >= 0 THEN Len(dat) = n_chan * n_sam
                ELSE n_sam = -1 /\ n_chan > 0 /\ Len(dat) % n_chan = 0
    IN  IF ~fits
        THEN [err |-> "ValueError", val |-> NoData]
        ELSE LET m == reshape_F(dat, n_chan, cols) IN
             [err |-> "",
              val |-> [ndim |-> 2, shape |-> <<n_chan, cols>>,
                       data |-> [c \in 1..n_chan |->
                                  [j \in 1..cols |->
                                    Rat(fac[c].num * m[c][j], fac[c].den)]]]]

(***************************************************************************)
(* data[chan, :] of numpy: an integer index inside [-rows, rows) selects   *)
(* one row and drops the axis (negative indices count from the end), a     *)
(* list of such indices selects rows in the order given and keeps the      *)
(* axis, any other index raises IndexError.                                *)
(***************************************************************************)
row_of(idx, rows) == IF idx < 0 THEN idx + rows + 1 ELSE idx + 1

index_rows(m, chan) ==
    LET rows == m.shape[1] IN
    IF \E k \in 1..Len(chan.idx) : chan.idx[k] >= rows \/ chan.idx[k] < -rows
    THEN [err |-> "IndexError", val |-> NoData]
    ELSE IF chan.scalar
    THEN [err |-> "",
          val |-> [ndim |-> 1, shape |-> <<m.shape[2]>>,
                   data |-> m.data[row_of(chan.idx[1], rows)]]]
    ELSE [err |-> "",
          val |-> [ndim |-> 2, shape |-> <<Len(chan.idx), m.shape[2]>>,
                   data |-> [k \in 1..Len(chan.idx) |->
                              m.data[row_of(chan.idx[k], rows)]]]]

(***************************************************************************)
(* The continuous files of the model.  Electrode records carry their range *)
(* fields as raw 16-bit words; a data packet is the marker byte 1, a       *)
(* 4-byte timestamp, the 4-byte declared sample count and k interleaved    *)
(* int16 items (k need not match the declaration).                         *)
(***************************************************************************)
Elec(type, label, mind, maxd, mina, maxa) ==
    [Type |-> type, Label |-> label,
     MinDigiValue |-> U16(mind), MaxDigiValue |-> U16(maxd),
     MinAnalogValue |-> U16(mina), MaxAnalogValue |-> U16(maxa)]

ElecA == Elec("CC", <<97, 0, 0>>, -2, 2, -4, 4)
ElecB == Elec("CC", <<98, 49, 0>>, -4, 4, -3, 3)
GoodElecs == {ElecA, ElecB}
BadElecs == {Elec("CC", <<100>>, -32768, 32767, -4, 4),
             Elec("CC", <<101>>, -2, 2, -4, 5),
             Elec("CC", <<122>>, 0, 0, -4, 4),
             Elec("XX", <<120>>, -2, 2, -4, 4)}

SampleVals == <<258, -2, 1, -32768, 32767>>
SampleVal(i) == SampleVals[(i % Len(SampleVals)) + 1]
Samples(k) == [b \in 1..(2 * k) |-> LE16(SampleVal((b - 1) \div 2))[((b - 1) % 2) + 1]]
Packet(N, k) == <<1>> \o LE32(0) \o LE32(N) \o Samples(k)

Tails(n) ==
    UNION {{Packet(N, k) : k \in {j \in {N * n - 1, N * n, N * n + n} : j >= 0}} :
              N \in 0..MaxSam}
    \cup {Packet(N, N * n) \o <<0>> : N \in 0..MaxSam}
    \cup {Packet(1, n) \o Packet(N, N * n) : N \in 1..MaxSam}
    \cup {<<>>, <<0>>, <<1, 0, 0>>, <<1, 0, 0, 0, 0, 1>>}

NsxFile(magic, table, tail) ==
    [kind |-> "nsx", FileTypeID |-> magic, ExtHdr |-> table, tail |-> tail]

GoodTables == UNION {[1..n -> GoodElecs] : n \in 1..MaxChan}
OneBadTables ==
    UNION {{[i \in 1..n |-> IF i = p THEN b ELSE ElecA] : p \in 1..n, b \in BadElecs} :
              n \in 1..MaxChan}

NsxFiles ==
    UNION {{NsxFile("NEURALCD", t, x) : x \in Tails(Len(t))} : t \in GoodTables}
    \cup {NsxFile("NEURALCD", t, Packet(1, Len(t))) : t \in OneBadTables}
    \cup {NsxFile("NEURALCD", <<>>, x) : x \in {<<>>, <<0>>, Packet(0, 0), Packet(1, 0)}}
    \cup {NsxFile("NEURALEV", <<ElecA>>, Packet(1, 1))}

(***************************************************************************)
(* An event file: the fields of the 336-byte basic header the parser       *)
(* uses, the 32-bit stamp found PacketBytes before the end of the file,    *)
(* and the 32-byte records that follow offset 336.  A record keeps its     *)
(* 16-bit fields as raw words; which fields are read depends on its tag.   *)
(***************************************************************************)
DigitalFactorOverflow == 21516

EmptyRecord ==
    [PacketID |-> "", ElectrodeID |-> 0, ConnectorBank |-> 0, ConnectorPin |-> 0,
     DigitalFactor |-> 0, EnergyThreshold |-> 0, HighThreshold |-> 0,
     LowThreshold |-> 0, Units |-> 0, WaveformBytes |-> 0, Text |-> <<>>,
     HighFreqCorner |-> 0, HighFreqOrder |-> 0, HighFilterType |-> 0,
     LowFreqCorner |-> 0, LowFreqOrder |-> 0, LowFilterType |-> 0, Mode |-> 0]

(* f.read(32) for the record with 0-based index i; past the end it is empty *)
read_record(f, i) ==
    IF i + 1 <= Len(f.records) THEN f.records[i + 1] ELSE EmptyRecord

(* d.update(e), and d[key] = value as the one-key case: the keys of e are  *)
(* overwritten, every other key of d stays                                 *)
dict_replace(d, e) == e
dict_update(d, e) ==
    [k \in (DOMAIN d) \cup (DOMAIN e) |-> IF k \in DOMAIN e THEN e[k] ELSE d[k]]

(* ElectrodesInfo[idx] of a Python list: negative indices count from the end *)
list_has(lst, idx) == -Len(lst) <= idx /\ idx < Len(lst)
list_pos(lst, idx) == IF idx < 0 THEN idx + Len(lst) + 1 ELSE idx + 1

(* lines 303-308: the signed 16-bit field and its overflow workaround *)
digital_factor_raw(w) == Rat(Int16(w), 1)
digital_factor(w) ==
    LET df == Int16(w) IN
    IF df = DigitalFactorOverflow THEN Rat(152592547, 1000) ELSE Rat(df, 1)

spike_descriptor(r) ==
    [ElectrodeID |-> r.ElectrodeID,
     ConnectorBank |-> r.ConnectorBank + 64,
     ConnectorPin |-> r.ConnectorPin,
     DigitalFactor |-> digital_factor(r.DigitalFactor),
     EnergyThreshold |-> r.EnergyThreshold,
     HighThreshold |-> Int16(r.HighThreshold),
     LowThreshold |-> Int16(r.LowThreshold),
     Units |-> r.Units,
     WaveformBytes |-> r.WaveformBytes]

filter_fields(r) ==
    [HighFreqCorner |-> r.HighFreqCorner, HighFreqOrder |-> r.HighFreqOrder,
     HighFilterType |-> r.HighFilterType, LowFreqCorner |-> r.LowFreqCorner,
     LowFreqOrder |-> r.LowFreqOrder, LowFilterType |-> r.LowFilterType]

KnownTags == {"NEUEVWAV", "NEUEVLBL", "NEUEVFLT", "DIGLABEL"}

(* lines 324 and 331: the 1-based electrode value as a 0-based list index *)
electrode_index_raw(v) == v
electrode_index(v) == v - 1

skip_record(fr, r) == [fr EXCEPT !.i = fr.i + 1]

unknown_record(fr, r) ==
    [fr EXCEPT !.pc = "raised", !.err = "NotImplementedError"]

(* one iteration of the loop of lines 288-355 on the frame fr *)
ext_record(fr, r) ==
    LET EI == fr.ElectrodesInfo IN
    IF r.PacketID = "NEUEVWAV"
    THEN [fr EXCEPT !.i = fr.i + 1,
                    !.ElectrodesInfo = Append(EI, spike_descriptor(r))]
    ELSE IF r.PacketID = "NEUEVLBL"
    THEN LET ElectrodeID == electrode_index(r.ElectrodeID) IN
         IF ~list_has(EI, ElectrodeID)
         THEN [fr EXCEPT !.pc = "raised", !.err = "IndexError"]
         ELSE [fr EXCEPT !.i = fr.i + 1,
                         !.ElectrodesInfo[list_pos(EI, ElectrodeID)] =
                             dict_update(@, [ElectrodeLabel |-> str(r.Text)])]
    ELSE IF r.PacketID = "NEUEVFLT"
    THEN LET ElectrodeID == electrode_index(r.ElectrodeID) IN
         IF ~list_has(EI, ElectrodeID)
         THEN [fr EXCEPT !.pc = "raised", !.err = "IndexError"]
         ELSE [fr EXCEPT !.i = fr.i + 1,
                         !.ElectrodesInfo[list_pos(EI, ElectrodeID)] =
                             dict_update(@, filter_fields(r))]
    ELSE IF r.PacketID = "DIGLABEL"
    THEN [fr EXCEPT !.i = fr.i + 1,
                    !.IOLabels = Append(fr.IOLabels,
                                        [mode |-> r.Mode + 1, label |-> str(r.Text)])]
    ELSE unknown_record(fr, r)

(* lines 245-286 of _read_neuralev: the basic header and the duration *)
nev_basic(f) ==
    IF ~check_magic(f.FileTypeID, "NEURALEV") THEN "AssertionError"
    ELSE IF f.PacketBytes < 4 THEN "struct.error"
    ELSE IF f.SampleRes = 0 THEN "ZeroDivisionError"
    ELSE ""

(***************************************************************************)
(* The event files of the model.                                           *)
(***************************************************************************)
Wav(id, df) ==
    [EmptyRecord EXCEPT !.PacketID = "NEUEVWAV", !.ElectrodeID = id,
                        !.ConnectorBank = 1, !.ConnectorPin = id,
                        !.DigitalFactor = df, !.EnergyThreshold = 0,
                        !.HighThreshold = 40, !.LowThreshold = U16(-40),
                        !.Units = 2, !.WaveformBytes = 2]
Lbl(v, text) ==
    [EmptyRecord EXCEPT !.PacketID = "NEUEVLBL", !.ElectrodeID = v, !.Text = text]
Flt(v) ==
    [EmptyRecord EXCEPT !.PacketID = "NEUEVFLT", !.ElectrodeID = v,
                        !.HighFreqCorner = 250000, !.HighFreqOrder = 4,
                        !.HighFilterType = 1, !.LowFreqCorner = 7500000,
                        !.LowFreqOrder = 3, !.LowFilterType = 1]
Dig == [EmptyRecord EXCEPT !.PacketID = "DIGLABEL", !.Text = <<115, 0, 120>>, !.Mode = 0]
Unk == [EmptyRecord EXCEPT !.PacketID = "NEUEVXXX", !.ElectrodeID = 1]

RecordKinds ==
    {Wav(1, 21516), Wav(2, 65535), Wav(3, 7),
     Lbl(1, <<97, 0, 0>>), Lbl(2, <<98, 0, 99>>), Lbl(0, <<122>>),
     Flt(1), Flt(3), Dig, Unk}

NevFile(magic, pb, sr, n, recs) ==
    [kind |-> "nev", FileTypeID |-> magic, PacketBytes |-> pb, SampleRes |-> sr,
     DataDuration |-> 90000, countExtHeader |-> n, records |-> recs]

RecordSeqs == UNION {[1..n -> RecordKinds] : n \in 0..MaxRec}

NevFiles ==
    {NevFile("NEURALEV", 104, 30000, Len(rs), rs) : rs \in RecordSeqs}
    \cup {NevFile("NEURALEV", 104, 30000, Len(rs) + 1, rs) :
             rs \in {<<>>, <<Wav(1, 21516)>>}}
    \cup {NevFile(h[1], h[2], h[3], 2, <<Wav(1, 21516), Lbl(1, <<97, 0, 0>>)>>) :
             h \in {<<"NEURALCD", 104, 30000>>, <<"NEURALEV", 0, 30000>>,
                    <<"NEURALEV", 104, 0>>}}

NevFew ==
    {NevFile("NEURALEV", 104, 30000, Len(rs), rs) :
        rs \in {<<Wav(1, 21516), Lbl(1, <<97, 0, 0>>)>>,
                <<Wav(1, 7), Flt(1), Dig>>,
                <<Wav(1, 7), Unk>>}}
    \cup {NevFile("NEURALCD", 104, 30000, 1, <<Wav(1, 21516)>>)}

(***************************************************************************)
(* The decoder object and its callers.  A call is synchronous: it runs to  *)
(* its return or raise, the caller takes the outcome (Return), and only    *)
(* then issues the next call.  `opened` counts the open() calls the call   *)
(* made, `computed` the scales _convert_factor appended, `at` the place    *)
(* that raised.                                                            *)
(***************************************************************************)
Scalar(c) == [scalar |-> TRUE, idx |-> <<c>>]
List(s) == [scalar |-> FALSE, idx |-> s]

ChanSelectors ==
    {Scalar(c) : c \in -2..MaxChan}
    \cup {List(<<c>>) : c \in -2..MaxChan}
    \cup {List(<<a, b>>) : a \in 0..(MaxChan - 1), b \in 0..(MaxChan - 1)}
SampleArgs == 0..(MaxSam + 1)

NsExts == {".ns1", ".ns2", ".ns3", ".ns4", ".ns5", ".ns6"}

Unset == [set |-> FALSE, v |-> <<>>]
NoTuple == [chan_name |-> <<>>, n_samples |-> 0, BOData |-> 0]
NoCall ==
    [op |-> "none", chan |-> List(<<>>), begsam |-> 0, endsam |-> 0,
     status |-> "idle", err |-> "", at |-> "", val |-> NoData, hdr |-> NoTuple,
     opened |-> 0, computed |-> 0]
NevIdle ==
    [pc |-> "idle", i |-> 0, ElectrodesInfo |-> <<>>, IOLabels |-> <<>>,
     ChannelID |-> <<>>, err |-> ""]

Idle == call.status = "idle"

(* `with open(filename, 'rb') as f:` enters with one more handle open and   *)
(* leaves, by return or by exception, with that handle closed               *)
open_file(h) == h + 1
close_file_never(h) == h
close_file(h) == h - 1

Raise(c, err, at, opened) ==
    [c EXCEPT !.status = "raised", !.err = err, !.at = at, !.opened = opened]

InitObject ==
    /\ BOData = Unset
    /\ factor = Unset
    /\ call = NoCall
    /\ nev = NevIdle
    /\ handles = 0
    /\ seen = <<>>

Init ==
    /\ \/ file \in NsxFiles /\ ext = ".ns4"
       \/ file \in NevFew /\ ext = ".nev"
       \/ file = NsxFile("NEURALCD", <<ElecA>>, Packet(1, 1)) /\ ext = ".dat"
    /\ InitObject

InitNev ==
    /\ file \in NevFiles
    /\ ext = ".nev"
    /\ InitObject

(* BlackRock.return_hdr on a continuous file (ext[:3] == '.ns') *)
return_hdr_ns ==
    /\ Idle
    /\ ext \in NsExts
    /\ LET c0 == [NoCall EXCEPT !.op = "return_hdr"]
           r == read_neuralcd(file)
       IN  IF r.err # ""
           THEN /\ call' = Raise(c0, r.err, r.at, 1)
                /\ UNCHANGED <<BOData, factor>>
           ELSE LET cf == convert_factor(r.hdr.ElectrodesInfo) IN
                /\ BOData' = [set |-> TRUE, v |-> r.hdr.BOData]
                /\ IF cf.err # ""
                   THEN /\ call' = [Raise(c0, cf.err, "_convert_factor", 1)
                                       EXCEPT !.computed = cf.computed]
                        /\ UNCHANGED factor
                   ELSE /\ factor' = [set |-> TRUE, v |-> cf.factor]
                        /\ call' = [c0 EXCEPT !.status = "returned",
                                       !.opened = 1,
                                       !.computed = cf.computed,
                                       !.hdr = [chan_name |->
                                                  [i \in 1..r.hdr.ChannelCount |->
                                                     r.hdr.ElectrodesInfo[i].Label],
                                                n_samples |-> r.hdr.DataPoints,
                                                BOData |-> r.hdr.BOData]]
    /\ UNCHANGED <<file, ext, nev, seen>>
    /\ handles' = close_file(open_file(handles))

(* BlackRock.return_hdr on an event file: _read_neuralev opens the file and *)
(* reads the basic header and the duration                                  *)
return_hdr_nev ==
    /\ Idle
    /\ ext = ".nev"
    /\ LET c0 == [NoCall EXCEPT !.op = "return_hdr"]
           e == nev_basic(file)
       IN  IF e # ""
           THEN /\ call' = Raise(c0, e, "_read_neuralev", 1)
                /\ nev' = [NevIdle EXCEPT !.pc = "raised", !.err = e]
                /\ handles' = close_file(open_file(handles))
           ELSE /\ call' = [c0 EXCEPT !.status = "running", !.opened = 1]
                /\ nev' = [NevIdle EXCEPT !.pc = "ext"]
                /\ handles' = open_file(handles)
    /\ UNCHANGED <<file, ext, BOData, factor, seen>>

(* _read_neuralev: one extended-header record *)
nev_record ==
    /\ nev.pc = "ext"
    /\ nev.i < file.countExtHeader
    /\ LET fr == ext_record(nev, read_record(file, nev.i)) IN
       /\ nev' = fr
       /\ IF fr.pc = "raised"
          THEN /\ call' = Raise(call, fr.err, "_read_neuralev", 1)
               /\ handles' = close_file(handles)
          ELSE UNCHANGED <<call, handles>>
    /\ UNCHANGED <<file, ext, BOData, factor, seen>>

(* _read_neuralev returns; return_hdr builds its tuple from the header *)
nev_return ==
    /\ nev.pc = "ext"
    /\ nev.i = file.countExtHeader
    /\ nev' = [nev EXCEPT !.pc = "returned",
                          !.ChannelID = [k \in 1..Len(nev.ElectrodesInfo) |->
                                           nev.ElectrodesInfo[k].ElectrodeID]]
    /\ handles' = close_file(handles)
    /\ call' = [call EXCEPT !.status = "returned",
                            !.hdr = [chan_name |-> <<"dummy">>,
                                     n_samples |-> file.DataDuration,
                                     BOData |-> 0]]
    /\ UNCHANGED <<file, ext, BOData, factor, seen>>

(* BlackRock.return_hdr on any other extension: orig is never bound *)
return_hdr_other ==
    /\ Idle
    /\ ext \notin NsExts
    /\ ext # ".nev"
    /\ call' = Raise([NoCall EXCEPT !.op = "return_hdr"], "UnboundLocalError",
                     "return_hdr", 0)
    /\ UNCHANGED <<file, ext, BOData, factor, nev, handles, seen>>

return_hdr == return_hdr_ns \/ return_hdr_nev \/ return_hdr_other

is_nev_never(e) == FALSE
is_nev(e) == e = ".nev"

(* line 86: the arguments self.BOData and self.factor are looked up before  *)
(* _read_nsx is entered; an attribute never assigned raises AttributeError  *)
attrs_missing_BOData(bo, fa) == ~bo.set
attrs_missing(bo, fa) == ~bo.set \/ ~fa.set

(* BlackRock.return_dat *)
return_dat(chan, begsam, endsam) ==
    /\ Idle
    /\ LET c0 == [NoCall EXCEPT !.op = "return_dat", !.chan = chan,
                                !.begsam = begsam, !.endsam = endsam]
       IN  IF is_nev(ext)
           THEN call' = Raise(c0, "NotImplementedError", "return_dat", 0)
           ELSE IF attrs_missing(BOData, factor)
           THEN call' = Raise(c0, "AttributeError", "return_dat", 0)
           ELSE LET d == read_nsx(file, BOData.v, factor.v, begsam, endsam) IN
                IF d.err # ""
                THEN call' = Raise(c0, d.err, "_read_nsx", 1)
                ELSE LET x == index_rows(d.val, chan) IN
                     IF x.err # ""
                     THEN call' = Raise(c0, x.err, "return_dat", 1)
                     ELSE call' = [c0 EXCEPT !.status = "returned", !.opened = 1,
                                                !.val = x.val]
    /\ handles' = IF call'.opened = 1 THEN close_file(open_file(handles))
                                       ELSE handles
    /\ UNCHANGED <<file, ext, BOData, factor, nev, seen>>

(* the caller takes the outcome of the finished call *)
Return ==
    /\ call.status \in {"returned", "raised"}
    /\ call' = NoCall
    /\ UNCHANGED <<file, ext, BOData, factor, nev, handles, seen>>

Next ==
    \/ return_hdr
    \/ nev_record
    \/ nev_return
    \/ \E chan \in ChanSelectors, begsam \in SampleArgs, endsam \in SampleArgs :
          return_dat(chan, begsam, endsam)
    \/ Return

Spec == Init /\ [][Next]_vars

(* a caller that only opens event files *)
NextNev ==
    \/ return_hdr_nev
    \/ nev_record
    \/ nev_return
    \/ Return

SpecNev == InitNev /\ [][NextNev]_vars

(***************************************************************************)
(* Properties.                                                             *)
(***************************************************************************)
Finished == call.status \in {"returned", "raised"}
Opened == BOData.set /\ factor.set
Continuous == ext \in NsExts
Reported == read_neuralcd(file).hdr      \* what the open of this file reports
ReadOnOpened == call.op = "return_dat" /\ Finished /\ Continuous /\ Opened
ValidRange == call.begsam <= call.endsam /\ call.endsam <= Reported.DataPoints
ValidChannels ==
    \A k \in 1..Len(call.chan.idx) :
        0 <= call.chan.idx[k] /\ call.chan.idx[k] < Len(Reported.ElectrodesInfo)
SamplesPresent ==
    BOData.v + Reported.DataPoints * Len(factor.v) * 2 <= FileSize(file)

(* C1: on an opened continuous decoder whose reported samples are all in   *)
(* the file, return_dat with 0 <= begsam <= endsam <= n_samples and valid  *)
(* channel indices returns a 2-D matrix with one row per requested channel *)
(* (one row for a single index) and endsam - begsam columns.               *)
C1_RowsAndColumnsAsRequested ==
    (ReadOnOpened /\ SamplesPresent /\ ValidRange /\ ValidChannels)
        => /\ call.status = "returned"
           /\ call.val.ndim = 2
           /\ call.val.shape = <<Len(call.chan.idx), call.endsam - call.begsam>>

(* C2: every value return_dat returns for requested channel c >= 0 and     *)
(* sample s in [begsam, endsam) is factor[c] times the signed 16-bit       *)
(* integer at byte offset BOData + 2*(n*s + c) of the file, for the        *)
(* channels in the order requested.                                        *)
C2_ValueAtOffset ==
    (call.op = "return_dat" /\ call.status = "returned")
        => LET n == Len(factor.v) IN
           \A k \in 1..Len(call.chan.idx) :
              call.chan.idx[k] >= 0 =>
                 \A s \in call.begsam..(call.endsam - 1) :
                    LET c == call.chan.idx[k]
                        row == IF call.chan.scalar THEN call.val.data
                               ELSE call.val.data[k]
                        j == s - call.begsam + 1
                        raw == int16_at(file, BOData.v + 2 * (n * s + c))
                    IN  /\ j \in DOMAIN row
                        /\ row[j].num * factor.v[c + 1].den
                              = factor.v[c + 1].num * raw * row[j].den

C2_Witness ==
    /\ call.op = "return_dat" /\ call.status = "returned"
    /\ call.chan = List(<<1, 0>>) /\ call.begsam = 1 /\ call.endsam = 2
    /\ Len(factor.v) = 2

Symmetric(e) ==
    e.MaxDigiValue = -e.MinDigiValue /\ e.MaxAnalogValue = -e.MinAnalogValue
ZeroRange(e) == e.MaxDigiValue - e.MinDigiValue = 0
ScaleIs(f, e) ==
    /\ f.den # 0
    /\ f.num * (e.MaxDigiValue - e.MinDigiValue)
          = (e.MaxAnalogValue - e.MinAnalogValue) * f.den
OpenReachedScales ==
    call.op = "return_hdr" /\ Finished /\ Continuous /\ read_neuralcd(file).err = ""

(* C3 as stated: the scale of every symmetric descriptor is                *)
(* (MaxAnalogValue - MinAnalogValue) / (MaxDigiValue - MinDigiValue), and  *)
(* a table with a descriptor violating a symmetry fails the open with an   *)
(* assertion raised before any scale is computed.                          *)
C3_NoScaleBeforeFailure ==
    OpenReachedScales
        => LET E == Reported.ElectrodesInfo IN
           IF \A i \in 1..Len(E) : Symmetric(E[i])
           THEN /\ call.status = "returned"
                /\ Len(factor.v) = Len(E)
                /\ \A i \in 1..Len(E) : ScaleIs(factor.v[i], E[i])
           ELSE /\ call.status = "raised"
                /\ call.err = "AssertionError"
                /\ call.computed = 0

(* C3 amended: when every descriptor is symmetric and has a nonzero        *)
(* digital range the open stores that scale for each; otherwise the open   *)
(* fails at the first descriptor that violates a symmetry (AssertionError) *)
(* or is symmetric with a zero digital range (ZeroDivisionError), having   *)
(* computed the scales of exactly the descriptors before it, and stores no *)
(* scale factors.                                                          *)
C3_ScalesUpToFirstFailure ==
    OpenReachedScales
        => LET E == Reported.ElectrodesInfo
               stop == {i \in 1..Len(E) : ~Symmetric(E[i]) \/ ZeroRange(E[i])}
           IN  IF stop = {}
               THEN /\ call.status = "returned"
                    /\ factor.set
                    /\ Len(factor.v) = Len(E)
                    /\ \A i \in 1..Len(E) : ScaleIs(factor.v[i], E[i])
               ELSE LET j == CHOOSE i \in stop : \A m \in stop : i <= m IN
                    /\ call.status = "raised"
                    /\ call.at = "_convert_factor"
                    /\ call.err = (IF Symmetric(E[j]) THEN "ZeroDivisionError"
                                   ELSE "AssertionError")
                    /\ call.computed = j - 1
                    /\ ~factor.set

C3_Witness ==
    /\ OpenReachedScales
    /\ call.status = "raised" /\ call.err = "AssertionError"
    /\ call.computed = 1

(* C4: a read on an opened continuous decoder whose sample range violates  *)
(* begsam <= endsam <= n_samples fails with an error and returns no matrix.*)
C4_BadRangeRaises ==
    (ReadOnOpened /\ ValidChannels /\ ~ValidRange) => call.status = "raised"

(* C5: a read on an opened continuous decoder whose selector holds an      *)
(* index outside [0, len(chan_name)), negative ones included, fails with   *)
(* an error and returns no matrix.                                         *)
C5_BadChannelRaises ==
    (ReadOnOpened /\ SamplesPresent /\ ValidRange /\ ~ValidChannels)
        => call.status = "raised"

(* C6: return_dat on a decoder of an event file (.nev) raises              *)
(* NotImplementedError for every selector and range, opens no file, and    *)
(* does so before and after return_hdr.                                    *)
C6_NevReadNotImplemented ==
    (call.op = "return_dat" /\ Finished /\ ext = ".nev")
        => /\ call.status = "raised"
           /\ call.err = "NotImplementedError"
           /\ call.opened = 0
           /\ handles = 0

C6_Witness ==
    /\ call.op = "return_dat" /\ call.status = "raised" /\ ext = ".nev"
    /\ nev.pc = "returned"
    /\ call.chan = List(<<0>>) /\ call.begsam = 0 /\ call.endsam = 1

WrongMagic ==
    \/ Continuous /\ file.FileTypeID # "NEURALCD"
    \/ ext = ".nev" /\ file.FileTypeID # "NEURALEV"

(* C7: an open of a continuous file not tagged NEURALCD, or of an event    *)
(* file not tagged NEURALEV, raises: no header tuple is returned, nothing  *)
(* is stored on the decoder and no electrode record is parsed.             *)
C7_WrongMagicFailsOpen ==
    (call.op = "return_hdr" /\ call.status # "idle" /\ WrongMagic)
        => /\ call.status = "raised"
           /\ call.err = "AssertionError"
           /\ call.hdr = NoTuple
           /\ ~BOData.set /\ ~factor.set
           /\ call.computed = 0
           /\ nev.pc \in {"idle", "raised"}
           /\ nev.i = 0 /\ nev.ElectrodesInfo = <<>> /\ nev.IOLabels = <<>>

C7_Witness ==
    /\ call.op = "return_hdr" /\ call.status = "raised" /\ WrongMagic
    /\ Continuous /\ Len(file.ExtHdr) > 0

(***************************************************************************)
(* Properties of the event-format extended header (under SpecNev).         *)
(***************************************************************************)
Signed16(w) == IF w >= 32768 THEN w - 65536 ELSE w
TagAt(j) == read_record(file, j - 1).PacketID
UnknownAt == {j \in 1..file.countExtHeader : TagAt(j) \notin KnownTags}
FirstUnknown == CHOOSE j \in UnknownAt : \A m \in UnknownAt : j <= m
WavBefore(j) == {m \in 1..j : TagAt(m) = "NEUEVWAV"}
(* the record that created the k-th descriptor *)
WavRecord(k) ==
    CHOOSE j \in 1..file.countExtHeader :
        TagAt(j) = "NEUEVWAV" /\ Cardinality(WavBefore(j)) = k

(* C8: a record whose tag is none of the four known tags is never passed:  *)
(* the parse stops at it with NotImplementedError, the open raises, and    *)
(* _read_neuralev returns no descriptor list and no IO-label list.         *)
C8_UnknownTagAborts ==
    (ext = ".nev" /\ UnknownAt # {})
        => /\ nev.i <= FirstUnknown - 1
           /\ nev.pc # "returned"
           /\ call.status # "returned"
           /\ (nev.pc = "raised" /\ nev_basic(file) = "" /\ nev.i = FirstUnknown - 1)
                 => /\ nev.err = "NotImplementedError"
                    /\ handles = 0
                    /\ call.op = "return_hdr"
                          => call.status = "raised" /\ call.err = "NotImplementedError"
           /\ (nev.pc = "raised" /\ nev.err = "NotImplementedError")
                 => nev.i = FirstUnknown - 1

C8_Witness ==
    /\ ext = ".nev" /\ UnknownAt # {}
    /\ nev.pc = "raised" /\ nev.err = "NotImplementedError"
    /\ nev.i = 2 /\ Len(nev.ElectrodesInfo) = 1 /\ Len(file.records) = 3

(* C9: the DigitalFactor of every spike-channel descriptor is 152592.547   *)
(* when the signed 16-bit field of its record is 21516, and that signed    *)
(* value itself otherwise.                                                 *)
C9_DigitalFactor ==
    ext = ".nev"
        => \A k \in 1..Len(nev.ElectrodesInfo) :
              LET raw == Signed16(file.records[WavRecord(k)].DigitalFactor)
                  got == nev.ElectrodesInfo[k].DigitalFactor
              IN  IF raw = 21516
                  THEN got.num = 152592547 /\ got.den = 1000
                  ELSE got.num = raw /\ got.den = 1

C9_Witness ==
    /\ nev.pc = "returned" /\ Len(nev.ElectrodesInfo) = 2
    /\ nev.ElectrodesInfo[1].DigitalFactor = Rat(152592547, 1000)
    /\ nev.ElectrodesInfo[2].DigitalFactor = Rat(-1, 1)

(* C10: a label record with electrode value v, 1 <= v <= number of         *)
(* descriptors created so far, puts its label (the text before the first   *)
(* NUL) on the descriptor at list position v - 1, changes no other         *)
(* descriptor and creates none; one spike-channel record followed by one   *)
(* label record for electrode 1 returns one descriptor carrying the label. *)
C10_LabelAttaches ==
    [][(nev.pc = "ext" /\ nev.i < file.countExtHeader /\ nev' # nev)
          => LET r == read_record(file, nev.i)
                 v == r.ElectrodeID
                 EI == nev.ElectrodesInfo
             IN  /\ (r.PacketID = "NEUEVLBL" /\ 1 <= v /\ v <= Len(EI))
                       => /\ nev'.pc = "ext"
                          /\ nev'.i = nev.i + 1
                          /\ Len(nev'.ElectrodesInfo) = Len(EI)
                          /\ nev'.IOLabels = nev.IOLabels
                          /\ "ElectrodeLabel" \in DOMAIN nev'.ElectrodesInfo[v]
                          /\ nev'.ElectrodesInfo[v].ElectrodeLabel = str(r.Text)
                          /\ \A key \in DOMAIN EI[v] \ {"ElectrodeLabel"} :
                                nev'.ElectrodesInfo[v][key] = EI[v][key]
                          /\ \A k \in 1..Len(EI) :
                                k # v => nev'.ElectrodesInfo[k] = EI[k]
                 /\ (file.records = <<Wav(1, 21516), Lbl(1, <<97, 0, 0>>)>>
                         /\ file.countExtHeader = 2 /\ nev.i = 1)
                       => /\ Len(nev'.ElectrodesInfo) = 1
                          /\ nev'.ElectrodesInfo[1].ElectrodeLabel = <<97>>
                          /\ nev'.ElectrodesInfo[1].ElectrodeID = 1]_vars

C10_Witness ==
    /\ nev.pc = "returned"
    /\ file.records = <<Wav(1, 21516), Lbl(1, <<97, 0, 0>>)>>
    /\ Len(nev.ElectrodesInfo) = 1
    /\ nev.ElectrodesInfo[1].ElectrodeLabel = <<97>>

(***************************************************************************)
(* The segmented-format readers of phypno/ioeeg/ktlx.py.                   *)
(*                                                                         *)
(* The module is Python 2 code: a str is a byte string, open(name, 'r')    *)
(* reads bytes, f.read(n) at the end of the file returns fewer than n      *)
(* bytes, and struct's native 'l' is 8 bytes wide (LP64).  A fixed-width   *)
(* text field is a short sequence of character codes standing for its      *)
(* whole width; offsets are computed from the widths the code reads.       *)
(***************************************************************************)
BITS_IN_BYTE == 8
GenericHdrLen == 352
HeadboxOffset == 4464
PrefixWidths == <<16, 2, 2, 4, 4, 4, 80, 80, 80, 80>>
ChanHdrWidths == <<8, 4, 4>>
HeadboxWidths == <<16, 16, 40, 10, 10, 4>>
Schema8Widths == <<2048, 2048>>

RECURSIVE SumSeq(_)
SumSeq(w) == IF w = <<>> THEN 0 ELSE w[1] + SumSeq(Tail(w))

(* _make_str: t[:t.index('\x00')], ValueError when t holds no NUL *)
make_str(t) ==
    IF \E i \in 1..Len(t) : t[i] = 0
    THEN [err |-> "", v |-> str(t)]
    ELSE [err |-> "ValueError", v |-> <<>>]

(* the file_schema values _read_hdr_file accepts *)
schema_known_from7(v) == v >= 7
schema_known(v) == v \in {7, 8, 9}

(* where the sample rows of a raw-data file start: f.seek(4560), f.seek(8656) *)
DataStart(schema) ==
    IF schema >= 8
    THEN HeadboxOffset + SumSeq(HeadboxWidths) + SumSeq(Schema8Widths)
    ELSE HeadboxOffset + SumSeq(HeadboxWidths)

(* bytes in a file with a generic header: the header bytes present, then   *)
(* the bytes that follow a complete header                                 *)
hdr_file_size(f) == f.hdr_bytes + Len(f.body)

NoKtlxHdr == [keys |-> {}, file_schema |-> 0, base_schema |-> 0,
              num_channels |-> 0, patient_id |-> <<>>, prefix |-> 0]

HdrErr(e) == [err |-> e, hdr |-> NoKtlxHdr]

PrefixKeys == {"file_guid", "file_schema", "base_schema", "creation_time",
               "patient_id", "study_id", "pat_last_name", "pat_first_name",
               "pat_middle_name"}
Schema7Keys == {"sample_freq", "num_channels", "deltabits", "phys_chan",
                "headbox_type", "headbox_sn", "headbox_sw_version",
                "dsp_hw_version", "dsp_sw_version", "discardbits"}
Schema8Keys == {"shorted", "frequency_factor"}

(* the four name fields and the three version fields, in reading order:    *)
(* the first that holds no NUL raises                                      *)
texts_ok(ts) == \A k \in 1..Len(ts) : make_str(ts[k]).err = ""

(* _read_hdr_file *)
read_hdr_file(f) ==
    LET size == hdr_file_size(f)
        at_schema == PrefixWidths[1] + PrefixWidths[2]
        at_base == at_schema + PrefixWidths[3]
        at_names == at_base + PrefixWidths[4] + PrefixWidths[5] + PrefixWidths[6]
        prefix == SumSeq(PrefixWidths)
        at_phys == prefix + SumSeq(ChanHdrWidths)
        at_headbox == HeadboxOffset + SumSeq(HeadboxWidths)
    IN  IF size < at_schema THEN HdrErr("struct.error")
        ELSE IF ~schema_known(f.file_schema) THEN HdrErr("AssertionError")
        ELSE IF size < at_base THEN HdrErr("struct.error")
        ELSE IF f.base_schema # 1 THEN HdrErr("AssertionError")
        ELSE IF size < at_names THEN HdrErr("struct.error")
        ELSE IF \E k \in 1..4 :
                   /\ texts_ok(SubSeq(f.names, 1, k - 1))
                   /\ size < at_names + 80 * k
             THEN HdrErr("struct.error")
        ELSE IF ~texts_ok(f.names) THEN HdrErr("ValueError")
        ELSE IF prefix # GenericHdrLen THEN HdrErr("AssertionError")
        ELSE IF f.file_schema >= 7 /\ size < at_phys THEN HdrErr("struct.error")
        ELSE IF f.file_schema >= 7
                /\ (f.num_channels < 0 \/ size < at_phys + 4 * f.num_channels)
             THEN HdrErr("struct.error")
        ELSE IF f.file_schema >= 7
                /\ \E k \in 1..3 :
                       /\ texts_ok(SubSeq(f.versions, 1, k - 1))
                       /\ size < HeadboxOffset + SumSeq(SubSeq(HeadboxWidths, 1, k + 2))
             THEN HdrErr("struct.error")
        ELSE IF f.file_schema >= 7 /\ ~texts_ok(f.versions)
             THEN HdrErr("ValueError")
        ELSE IF f.file_schema >= 7 /\ size < at_headbox
             THEN HdrErr("struct.error")
        ELSE IF f.file_schema >= 8 /\ size < at_headbox + SumSeq(Schema8Widths)
             THEN HdrErr("struct.error")
        ELSE [err |-> "",
              hdr |-> [keys |-> PrefixKeys
                                \cup (IF f.file_schema >= 7 THEN Schema7Keys ELSE {})
                                \cup (IF f.file_schema >= 8 THEN Schema8Keys ELSE {}),
                       file_schema |-> f.file_schema,
                       base_schema |-> f.base_schema,
                       num_channels |-> f.num_channels,
                       patient_id |-> make_str(f.names[4]).v,
                       prefix |-> prefix]]

(***************************************************************************)
(* _read_erd: the delta codec.  `b` is the byte sequence that follows the  *)
(* header, `pos` the number of its bytes already consumed, `out` the       *)
(* matrix being filled (one sequence of n_samples values per channel).     *)
(***************************************************************************)
bread(b, pos, k) == SubSeq(b, pos + 1, Min(pos + k, Len(b)))

unpack_b(s_in) == IF s_in[1] >= 128 THEN s_in[1] - 256 ELSE s_in[1]
unpack_h(s_in) == Int16(s_in[1] + 256 * s_in[2])
unpack_i(s_in) ==
    s_in[1] + 256 * s_in[2] + 65536 * s_in[3]
        + 16777216 * (IF s_in[4] >= 128 THEN s_in[4] - 256 ELSE s_in[4])

(* int(ceil(n_chan / BITS_IN_BYTE + 0.5)) *)
l_deltamask(n_chan) == (2 * n_chan + BITS_IN_BYTE + 2 * BITS_IN_BYTE - 1) \div (2 * BITS_IN_BYTE)

(* read_bits over the mask bytes read: least-significant bit first, cut to *)
(* the first n_chan bits (fewer when the mask was cut short by the end of  *)
(* the file); schema 7 synthesizes '0' * n_chan                            *)
mask_bit_msb(hx, c) ==
    (hx[(c \div BITS_IN_BYTE) + 1] \div (2 ^ (BITS_IN_BYTE - 1 - (c % BITS_IN_BYTE)))) % 2
mask_bit(hx, c) == (hx[(c \div BITS_IN_BYTE) + 1] \div (2 ^ (c % BITS_IN_BYTE))) % 2
deltamask(schema, hx, n_chan) ==
    IF schema = 7
    THEN [c \in 1..n_chan |-> 0]
    ELSE [c \in 1..Min(n_chan, BITS_IN_BYTE * Len(hx)) |-> mask_bit(hx, c - 1)]

(* abs_delta: '\x80' for schema 7, '\xff\xff' for schema 8 and 9 *)
abs_delta_one_byte(schema) == <<128>>
abs_delta(schema) == IF schema = 7 THEN <<128>> ELSE <<255, 255>>

(* s = f.read(2) for a '1' bit, f.read(1) for a '0' bit *)
field_width(m) == IF m = 1 THEN 2 ELSE 1

(* unpack('h', s)[0] for a '1' bit, unpack('b', s)[0] for a '0' bit *)
delta_of_unsigned(m, s_in) == IF m = 1 THEN s_in[1] + 256 * s_in[2] ELSE s_in[1]
delta_of(m, s_in) == IF m = 1 THEN unpack_h(s_in) ELSE unpack_b(s_in)

(* output[i_c, i - 1]: column -1 is the last column *)
prev_col(i, n_samples) == IF i = 0 THEN n_samples - 1 ELSE i - 1

(* zeros((n_chan, n_samples)) *)
ones(n_chan, n_samples) == [c \in 1..n_chan |-> [j \in 1..n_samples |-> 1]]
zeros(n_chan, n_samples) == [c \in 1..n_chan |-> [j \in 1..n_samples |-> 0]]

(* first pass over one row: the delta or sentinel field of every channel *)
RECURSIVE erd_fields(_, _, _, _, _, _, _, _)
erd_fields(b, schema, mask, i_c, pos, c_flags, out, i) ==
    IF i_c >= Len(mask)
    THEN [err |-> "", pos |-> pos, c |-> c_flags, out |-> out]
    ELSE LET m == mask[i_c + 1]
             s_rd == bread(b, pos, field_width(m))
         IN  IF s_rd = abs_delta(schema)
             THEN erd_fields(b, schema, mask, i_c + 1, pos + Len(s_rd),
                             Append(c_flags, TRUE), out, i)
             ELSE IF Len(s_rd) < field_width(m)
             THEN [err |-> "struct.error", pos |-> pos, c |-> c_flags, out |-> out]
             ELSE erd_fields(b, schema, mask, i_c + 1, pos + Len(s_rd),
                             Append(c_flags, FALSE),
                             [out EXCEPT ![i_c + 1][i + 1] =
                                 out[i_c + 1][prev_col(i, Len(out[i_c + 1])) + 1]
                                     + delta_of(m, s_rd)],
                             i)

(* second pass over one row: one 32-bit value per channel flagged absolute *)
RECURSIVE erd_abs(_, _, _, _, _, _, _)
erd_abs(b, n_chan, c_flags, i_c, pos, out, i) ==
    IF i_c >= n_chan
    THEN [err |-> "", pos |-> pos, out |-> out]
    ELSE IF i_c >= Len(c_flags)
    THEN [err |-> "IndexError", pos |-> pos, out |-> out]
    ELSE IF ~c_flags[i_c + 1]
    THEN erd_abs(b, n_chan, c_flags, i_c + 1, pos, out, i)
    ELSE LET s_rd == bread(b, pos, 4) IN
         IF Len(s_rd) < 4
         THEN [err |-> "struct.error", pos |-> pos, out |-> out]
         ELSE erd_abs(b, n_chan, c_flags, i_c + 1, pos + 4,
                      [out EXCEPT ![i_c + 1][i + 1] = unpack_i(s_rd)], i)

(* the absolute values of a row follow all of its delta fields *)
erd_row_reversed(b, schema, mask, n_chan, pos, out, i) ==
    LET fl == erd_fields(b, schema, mask, 0, pos, <<>>, out, i)
        rev(q) == [k \in 1..Len(q) |-> q[Len(q) + 1 - k]]
        r == erd_abs(b, n_chan, rev(fl.c), 0, fl.pos, rev(fl.out), i)
    IN  IF fl.err # ""
        THEN [err |-> fl.err, pos |-> fl.pos, out |-> fl.out]
        ELSE [r EXCEPT !.out = rev(r.out)]
erd_row(b, schema, mask, n_chan, pos, out, i) ==
    LET fl == erd_fields(b, schema, mask, 0, pos, <<>>, out, i) IN
    IF fl.err # ""
    THEN [err |-> fl.err, pos |-> fl.pos, out |-> fl.out]
    ELSE erd_abs(b, n_chan, fl.c, 0, fl.pos, fl.out, i)

NoErd == [err |-> "", at |-> "", val |-> NoData, rows |-> 0, opened |-> 0, tell |-> 0]

(* the loop `for i in range(n_samples)` from row i on; `rows` counts the   *)
(* rows decoded when the loop ends, `tell` the bytes consumed after the    *)
(* seek to the start of the data                                           *)
RECURSIVE erd_loop(_, _, _, _, _, _, _)
erd_loop(b, schema, n_chan, n_samples, i, pos, out) ==
    LET done(o, k) == [NoErd EXCEPT !.opened = 2, !.rows = k, !.tell = pos,
                          !.val = [ndim |-> 2, shape |-> <<n_chan, n_samples>>,
                                   data |-> o]]
        eventbite == bread(b, pos, 1)
        hx == IF schema = 7 THEN <<>> ELSE bread(b, pos + 1, l_deltamask(n_chan))
        row == erd_row(b, schema, deltamask(schema, hx, n_chan), n_chan,
                       pos + 1 + Len(hx), out, i)
    IN  IF i >= n_samples THEN done(out, i)
        ELSE IF eventbite = <<>> THEN done(out, i)
        ELSE IF eventbite # <<0>>
        THEN [NoErd EXCEPT !.err = "AssertionError", !.at = "event", !.opened = 2,
                           !.rows = i]
        ELSE IF row.err # ""
        THEN [NoErd EXCEPT !.err = row.err, !.at = "row", !.opened = 2, !.rows = i]
        ELSE erd_loop(b, schema, n_chan, n_samples, i + 1, row.pos, row.out)

(* _read_erd: the header through _read_hdr_file (one open), then the rows  *)
(* (a second open)                                                         *)
read_erd(f, n_samples) ==
    LET h == read_hdr_file(f) IN
    IF h.err # ""
    THEN [NoErd EXCEPT !.err = h.err, !.at = "_read_hdr_file", !.opened = 1]
    ELSE IF n_samples < 0
    THEN [NoErd EXCEPT !.err = "ValueError", !.at = "zeros", !.opened = 2]
    ELSE erd_loop(f.body, h.hdr.file_schema, h.hdr.num_channels, n_samples, 0, 0,
                  zeros(h.hdr.num_channels, n_samples))

(***************************************************************************)
(* Raw-data files.  A file is written from rows: per channel a narrow      *)
(* (1-byte) or wide (2-byte) field, then one 32-bit value per channel      *)
(* whose field is the absolute sentinel, in channel order.  `rows` keeps   *)
(* the rows that are wholly in the file as they were written; the decoder  *)
(* reads `body`, the bytes.                                                *)
(***************************************************************************)
Narrow(v) == [wide |-> FALSE, raw |-> <<v>>]
Wide(v) == [wide |-> TRUE, raw |-> LE16(v)]

Sentinel(schema, fld) ==
    IF schema = 7 THEN fld.raw = <<128>> ELSE fld.wide /\ fld.raw = <<255, 255>>

FieldPalette(schema) ==
    IF schema = 7
    THEN <<Narrow(5), Narrow(128), Narrow(255)>>
    ELSE <<Narrow(255), Wide(65535), Wide(300)>>

AbsVal(r, k) == IF k % 2 = 0 THEN -(300 * r + k) ELSE 70000 * r + k

RECURSIVE Concat(_)
Concat(ss) == IF ss = <<>> THEN <<>> ELSE ss[1] \o Concat(Tail(ss))

RECURSIVE BitsValue(_)
BitsValue(bits) == IF bits = <<>> THEN 0 ELSE bits[1] + 2 * BitsValue(Tail(bits))

MaskBytes(schema, flds) ==
    IF schema = 7
    THEN <<>>
    ELSE [j \in 1..l_deltamask(Len(flds)) |->
            BitsValue([k \in 1..BITS_IN_BYTE |->
                         LET c == BITS_IN_BYTE * (j - 1) + k IN
                         IF c > Len(flds) THEN 1
                         ELSE IF flds[c].wide THEN 1 ELSE 0])]

ErdRow(schema, flds, r, ev) ==
    LET flagged == {c \in 1..Len(flds) : Sentinel(schema, flds[c])} IN
    [event |-> ev, fields |-> flds,
     abs |-> [k \in 1..Cardinality(flagged) |-> AbsVal(r, k)]]

RowBytes(schema, row) ==
    <<row.event>> \o MaskBytes(schema, row.fields)
        \o Concat([c \in 1..Len(row.fields) |-> row.fields[c].raw])
        \o Concat([k \in 1..Len(row.abs) |-> LE32(row.abs[k])])

(* the rows of a channel count: the palette shifted along the channels,    *)
(* and the row in which every channel is absolute                          *)
RowFields(schema, n) ==
    LET pal == FieldPalette(schema) IN
    {[c \in 1..n |-> pal[((K + c) % Len(pal)) + 1]] : K \in 1..Len(pal)}
    \cup {[c \in 1..n |-> pal[2]]}

GoodNames == <<<<83, 0, 0>>, <<74, 0, 0>>, <<0, 0, 0>>, <<55, 49, 0>>>>
GoodVersions == <<<<49, 0>>, <<50, 0>>, <<51, 0>>>>

ErdFile(schema, n_chan, rows, bytes) ==
    [kind |-> ".erd", file_schema |-> schema, base_schema |-> 1,
     names |-> GoodNames, versions |-> GoodVersions, num_channels |-> n_chan,
     hdr_bytes |-> DataStart(schema), body |-> bytes, rows |-> rows]

WholeErd(schema, n_chan, rows) ==
    ErdFile(schema, n_chan, rows,
            Concat([r \in 1..Len(rows) |-> RowBytes(schema, rows[r])]))

(* a file cut after `keep` of its bytes: the rows still whole stay in rows *)
CutErd(f, keep) ==
    LET ends == [r \in 1..Len(f.rows) |->
                   Len(Concat([q \in 1..r |-> RowBytes(f.file_schema, f.rows[q])]))]
        whole == Cardinality({r \in 1..Len(f.rows) : ends[r] <= keep})
    IN  [f EXCEPT !.body = SubSeq(f.body, 1, keep), !.rows = SubSeq(f.rows, 1, whole)]

GoodErdFiles ==
    UNION {UNION {{WholeErd(schema, n, [r \in 1..L |-> ErdRow(schema, fl[r], r, 0)]) :
                      fl \in [1..L -> RowFields(schema, n)]} :
                  L \in 0..MaxSam} :
           schema \in {7, 8}, n \in 1..MaxChan}

BaseErd(schema) ==
    LET pal == FieldPalette(schema) IN
    WholeErd(schema, 2, <<ErdRow(schema, <<pal[1], pal[2]>>, 1, 0),
                          ErdRow(schema, <<pal[3], pal[1]>>, 2, 0)>>)

OddErdFiles ==
    UNION {{CutErd(BaseErd(schema), k) : k \in 0..(Len(BaseErd(schema).body) - 1)} :
           schema \in {7, 8}}
    \cup {[f EXCEPT !.body = f.body \o <<1>>] : f \in {BaseErd(7), BaseErd(8)}}
    \cup {[f EXCEPT !.body = f.body \o <<0>>] : f \in {BaseErd(7), BaseErd(8)}}
    \cup {WholeErd(9, 2, BaseErd(8).rows)}

(* files whose generic header is not the one _read_hdr_file accepts *)
HdrSizes == {17, 19, 31, 351, 352, 367, 4463, 4559, 4560, 8655, 8656}
HdrOnly(schema, base, size) ==
    [ErdFile(schema, 1, <<>>, <<>>) EXCEPT !.base_schema = base, !.hdr_bytes = size]
BadHdrFiles ==
    UNION {{HdrOnly(schema, base, size) :
               base \in {0, 1, 2},
               size \in {z \in HdrSizes : z <= DataStart(schema)}} :
           schema \in {6, 7, 8, 9, 10}}
    \cup {[HdrOnly(schema, 1, DataStart(schema)) EXCEPT !.names[k] = <<83, 74, 55>>] :
             schema \in {7, 8}, k \in 1..4}
    \cup {[HdrOnly(schema, 1, DataStart(schema)) EXCEPT !.versions[k] = <<49, 50>>] :
             schema \in {7, 8}, k \in 1..3}
    \cup {[HdrOnly(schema, 1, DataStart(schema)) EXCEPT !.num_channels = n] :
             schema \in {7, 8}, n \in {-1, 0, 2000}}

(* schema 8 and 9 files of 5 and 9 channels (two mask bytes): one channel  *)
(* wide, or none; and files whose padding mask bits are 0 instead of 1     *)
OneWide(n, w) == [c \in 1..n |-> IF c = w THEN Wide(300) ELSE Narrow(5)]
MaskErdFiles ==
    UNION {{WholeErd(schema, n, <<ErdRow(schema, OneWide(n, w), 1, 0)>>) :
               w \in {0, 1, n - 1, n}} :
           schema \in {8, 9}, n \in {5, 9}}
    \cup {WholeErd(8, 9, <<ErdRow(8, OneWide(9, 9), 1, 0),
                           ErdRow(8, OneWide(9, 8), 2, 0)>>)}
PadCleared(f) == [f EXCEPT !.body[2] = @ % 32, !.body[3] = 0]
PadErdFiles ==
    {PadCleared(WholeErd(8, 5, <<ErdRow(8, OneWide(5, w), 1, 0)>>)) : w \in {0, 5}}

(* narrow fields holding the bytes of the sentinels, wide fields that are   *)
(* not the sentinel                                                         *)
SentinelErdFiles ==
    {WholeErd(schema, 2, <<ErdRow(schema, <<Narrow(128), Narrow(255)>>, 1, 0),
                           ErdRow(schema, <<a, b>>, 2, 0)>>) :
        schema \in {8, 9},
        a \in {Narrow(128), Wide(65535)},
        b \in {Narrow(255), Wide(128), Wide(65535)}}

ErdFiles ==
    GoodErdFiles \cup OddErdFiles \cup BadHdrFiles
        \cup MaskErdFiles \cup PadErdFiles \cup SentinelErdFiles

(***************************************************************************)
(* _read_stc: the segment table of contents.  The file holds `summary`     *)
(* bytes of the summary fields, then its entries, then `extra` bytes that  *)
(* do not make up an entry.                                                *)
(***************************************************************************)
StcSummaryWidths == <<4, 4, 48>>
StcEntryWidths == <<256, 4, 4, 4, 4>>

stc_size(f) ==
    GenericHdrLen + f.summary + SumSeq(StcEntryWidths) * Len(f.entries) + f.extra

NoStc == [err |-> "", all_stamp |-> <<>>, summary_read |-> 0, entry_read |-> 0,
          tell |-> 0]

(* one entry: the name through _make_str, then the four int32 in file order *)
stc_entry_swapped(e) ==
    [segment_name |-> make_str(e.segment_name).v, start_stamp |-> e.end_stamp,
     end_stamp |-> e.start_stamp, sample_num |-> e.sample_num,
     sample_span |-> e.sample_span]
stc_entry(e) ==
    [segment_name |-> make_str(e.segment_name).v, start_stamp |-> e.start_stamp,
     end_stamp |-> e.end_stamp, sample_num |-> e.sample_num,
     sample_span |-> e.sample_span]

RECURSIVE stc_loop(_, _, _, _)
stc_loop(f, endfile, tell, all_stamp) ==
    LET k == Len(all_stamp) IN
    IF tell = endfile
    THEN [NoStc EXCEPT !.all_stamp = all_stamp, !.tell = tell,
                       !.summary_read = SumSeq(StcSummaryWidths),
                       !.entry_read = SumSeq(StcEntryWidths)]
    ELSE IF k >= Len(f.entries)
    THEN [NoStc EXCEPT !.err = "struct.error", !.tell = tell]
    ELSE IF make_str(f.entries[k + 1].segment_name).err # ""
    THEN [NoStc EXCEPT !.err = "ValueError", !.tell = tell]
    ELSE stc_loop(f, endfile, tell + SumSeq(StcEntryWidths),
                  Append(all_stamp, stc_entry(f.entries[k + 1])))

read_stc(f) ==
    IF f.summary < SumSeq(StcSummaryWidths)
    THEN [NoStc EXCEPT !.err = "struct.error"]
    ELSE stc_loop(f, stc_size(f), GenericHdrLen + SumSeq(StcSummaryWidths), <<>>)

StcEntry(name, k) ==
    [segment_name |-> name, start_stamp |-> 100 * k, end_stamp |-> 100 * k + 99,
     sample_num |-> 100 * (k - 1), sample_span |-> 100]
StcFile(summary, entries, extra) ==
    [kind |-> ".stc", summary |-> summary, entries |-> entries, extra |-> extra]
StcNames == {<<69, 0, 0>>, <<69, 95, 49>>, <<0, 69, 0>>}
StcFiles ==
    UNION {{StcFile(56, [k \in 1..L |-> StcEntry(nm[k], k)], extra) :
               nm \in [1..L -> StcNames], extra \in {0, 4, 16, 260}} :
           L \in 0..MaxRec}
    \cup {StcFile(z, <<>>, 0) : z \in {0, 4, 16, 55}}

(***************************************************************************)
(* _read_snc and _filetime_to_dt.  A filetime is a 64-bit count of 100 ns  *)
(* ticks, kept as three digits in base 10^7:                               *)
(*     ft = hi * 10^14 + mid * 10^7 + lo,   0 <= mid, lo < 10^7.           *)
(***************************************************************************)
HUNDREDS_OF_NANOSECONDS == 10000000
EPOCH_AS_FILETIME == [hi |-> 1164, mid |-> 4473600, lo |-> 0]
SncRecordWidths == <<4, 8>>

Filetime(hi, mid, lo) == [hi |-> hi, mid |-> mid, lo |-> lo]

(* divmod(ft - EPOCH_AS_FILETIME, HUNDREDS_OF_NANOSECONDS), then           *)
(* microsecond = ns100 // 10                                               *)
filetime_to_dt(ft) ==
    LET borrow == IF ft.lo < EPOCH_AS_FILETIME.lo THEN 1 ELSE 0
        ns100 == ft.lo - EPOCH_AS_FILETIME.lo + borrow * HUNDREDS_OF_NANOSECONDS
    IN  [s |-> (ft.hi - EPOCH_AS_FILETIME.hi) * HUNDREDS_OF_NANOSECONDS
                   + (ft.mid - EPOCH_AS_FILETIME.mid) - borrow,
         microsecond |-> ns100 \div 10]

snc_size(f) == GenericHdrLen + SumSeq(SncRecordWidths) * Len(f.records) + f.extra

NoSnc == [err |-> "", sampleStamp |-> <<>>, sampleTime |-> <<>>]

(* the loop reads a record first and tests for the end of the file after   *)
RECURSIVE snc_loop(_, _, _, _)
snc_loop(f, endfile, tell, acc) ==
    LET k == Len(acc.sampleStamp) IN
    IF k >= Len(f.records)
    THEN [NoSnc EXCEPT !.err = "struct.error"]
    ELSE LET nxt == [acc EXCEPT
                        !.sampleStamp = Append(@, f.records[k + 1].stamp),
                        !.sampleTime = Append(@, filetime_to_dt(f.records[k + 1].ft))]
             pos == tell + SumSeq(SncRecordWidths)
         IN  IF pos = endfile THEN nxt ELSE snc_loop(f, endfile, pos, nxt)

read_snc(f) == snc_loop(f, snc_size(f), GenericHdrLen, NoSnc)

SncTimes ==
    <<Filetime(1301, 2345678, 1234567), Filetime(1164, 4473600, 0),
      Filetime(1164, 4473599, 9999999), Filetime(1302, 0, 19)>>
SncFile(records, extra) == [kind |-> ".snc", records |-> records, extra |-> extra]
SncFiles ==
    UNION {{SncFile([k \in 1..L |-> [stamp |-> 1000 * k, ft |-> SncTimes[t[k]]]], extra) :
               t \in [1..L -> 1..Len(SncTimes)], extra \in {0, 3, 4, 11}} :
           L \in 0..MaxRec}

(***************************************************************************)
(* _read_ent: the annotation file.  `body` is the bytes from offset 352    *)
(* on.  Payload texts are over the characters '1', '2', '(', ')', newline  *)
(* and NUL; of the replacements of the heuristic translation only those of *)
(* the newline and of ')' match a text over these characters.  eval is     *)
(* modelled on the integer literals: the text, spaces stripped, evaluates  *)
(* when it is a nonempty run of the digits 1 to 9, and raises otherwise.   *)
(***************************************************************************)
note_hdr_length == 16

replace_char(t, a, b) == [k \in 1..Len(t) |-> IF t[k] = a THEN b ELSE t[k]]
translate(t) == replace_char(replace_char(t, 10, 32), 41, 125)

RECURSIVE lstrip(_)
lstrip(t) == IF t # <<>> /\ t[1] = 32 THEN lstrip(Tail(t)) ELSE t
RECURSIVE rstrip(_)
rstrip(t) ==
    IF t # <<>> /\ t[Len(t)] = 32 THEN rstrip(SubSeq(t, 1, Len(t) - 1)) ELSE t

eval_note(t) ==
    LET e == rstrip(lstrip(t)) IN
    IF e # <<>> /\ \A k \in 1..Len(e) : e[k] \in 49..57
    THEN [err |-> "", value |-> e]
    ELSE [err |-> "SyntaxError", value |-> <<>>]

(* s[:-2] *)
drop_last_two(t) == SubSeq(t, 1, Len(t) - 2)

(* except: pass *)
note_keep(allnote, note) == Append(allnote, note)
note_pass(allnote, note) == allnote

NoEnt == [err |-> "", allnote |-> <<>>, tell |-> 0]

RECURSIVE ent_loop(_, _, _)
ent_loop(b, pos, allnote) ==
    LET hd == bread(b, pos, note_hdr_length)
        type == unpack_i(SubSeq(hd, 1, 4))
        length == unpack_i(SubSeq(hd, 5, 8))
        want == length - note_hdr_length
        s_rd == IF want < 0 THEN SubSeq(b, pos + note_hdr_length + 1, Len(b))
                ELSE bread(b, pos + note_hdr_length, want)
        ev == eval_note(translate(drop_last_two(s_rd)))
        note == [type |-> type, length |-> length, value |-> ev.value]
        nxt == pos + note_hdr_length + Len(s_rd)
    IN  IF Len(hd) < note_hdr_length
        THEN [NoEnt EXCEPT !.err = "struct.error", !.tell = pos + Len(hd)]
        ELSE IF type = 0
        THEN [NoEnt EXCEPT !.allnote = allnote, !.tell = pos + note_hdr_length]
        ELSE IF ev.err # ""
        THEN ent_loop(b, nxt, note_pass(allnote, note))
        ELSE ent_loop(b, nxt, Append(allnote, note))

read_ent(f) == ent_loop(f.body, 0, <<>>)

(* the notes of a file as written: header (type, length, prev_length,      *)
(* unused), the text, two closing bytes                                    *)
Note(type, text) == [type |-> type, text |-> text, length |-> note_hdr_length + Len(text) + 2]
NoteBytes(n) ==
    LE32(n.type) \o LE32(n.length) \o LE32(0) \o LE32(0)
        \o (IF n.type = 0 THEN <<>> ELSE n.text \o <<0, 0>>)
EndNote == [type |-> 0, text |-> <<>>, length |-> note_hdr_length]
NoteKinds ==
    {Note(1, <<49, 50>>), Note(2, <<49, 10>>), Note(1, <<40>>),
     Note(1, <<49, 10, 50>>), Note(2, <<>>), Note(3, <<50, 41>>)}
EntFile(notes, ended, junk) ==
    [kind |-> ".ent", notes |-> notes, ended |-> ended,
     body |-> Concat([k \in 1..Len(notes) |-> NoteBytes(notes[k])])
                  \o (IF ended THEN NoteBytes(EndNote) ELSE <<>>) \o junk]
EntFiles ==
    UNION {{EntFile(ns, ended, <<>>) :
               ns \in [1..L -> NoteKinds], ended \in BOOLEAN} :
           L \in 0..MaxRec}
    \cup {EntFile(ns, TRUE, NoteBytes(Note(1, <<50>>)) \o NoteBytes(EndNote)) :
             ns \in [1..2 -> NoteKinds]}
    \cup {EntFile(<<Note(1, <<49>>)>>, FALSE, <<1, 0>>),
          EntFile(<<[Note(1, <<49, 50>>) EXCEPT !.length = 8]>>, TRUE, <<>>),
          EntFile(<<[Note(1, <<49, 50>>) EXCEPT !.length = 40]>>, TRUE, <<>>)}

(***************************************************************************)
(* The callers of the segmented-format readers: one file of the recording  *)
(* directory, read any number of times by the function of its kind, and    *)
(* the read request of the Ktlx decoder.  `seen` keeps the matrix of the   *)
(* first _read_erd call that returned and counts, up to two, the calls     *)
(* that returned after it.                                                 *)
(***************************************************************************)
KtlxFiles == ErdFiles \cup StcFiles \cup SncFiles \cup EntFiles

(* A recording directory as Ktlx.__init__ sees it: whether the argument is *)
(* a str, the basename of the path, and the .erd files it lists, each by   *)
(* its stem and whether its name ends in _NNN.erd.  The .erd file that     *)
(* _read_hdr_dir ends up reading is `file`.                                *)
ErdName(stem, seg) == [stem |-> stem, seg |-> seg]
Dir(is_str, base, erds) == [is_str |-> is_str, base |-> base, erds |-> erds]
NoDir == Dir(FALSE, "", {})
KtlxDirs ==
    {Dir(TRUE, "rec", {ErdName("rec", FALSE), ErdName("rec", TRUE)}),
     Dir(TRUE, "moved", {ErdName("rec", FALSE), ErdName("rec", TRUE)}),
     Dir(TRUE, "moved", {ErdName("rec", FALSE), ErdName("old", FALSE)}),
     Dir(TRUE, "moved", {ErdName("rec", TRUE)}),
     Dir(TRUE, "empty", {}),
     Dir(FALSE, "rec", {ErdName("rec", FALSE)})}

(* the names a function body of ktlx.py can read: its parameters and the   *)
(* names bound at module level or built in                                 *)
InitLocals == {"self", "ktlx_dir"}
ModuleNames ==
    {"isinstance", "str", "IOError", "len", "hexlify", "timedelta", "datetime",
     "glob", "ceil", "zeros", "SEEK_END", "basename", "join", "exists",
     "splitext", "sub", "match", "unpack", "BITS_IN_BYTE", "EPOCH_AS_FILETIME",
     "HUNDREDS_OF_NANOSECONDS", "ZERO", "HOUR", "division",
     "_calculate_conversion", "_filetime_to_dt", "_make_str", "_read_eeg",
     "_read_ent", "_read_erd", "_read_etc", "_read_snc", "_read_stc",
     "_read_hdr_file", "Ktlx"}
name_bound(name) == name \in InitLocals \cup ModuleNames

(* Ktlx._read_hdr_dir: the basename of the recording, then the generic     *)
(* header of <dir>/<basename>.erd                                          *)
read_hdr_dir(d, f) ==
    LET listed == {x \in d.erds : ~x.seg}
        found == IF ErdName(d.base, FALSE) \in d.erds THEN {d.base}
                 ELSE {x.stem : x \in listed}
    IN  IF Cardinality(found) # 1
        THEN [err |-> "IOError", basename |-> "", orig |-> NoKtlxHdr, opened |-> 0]
        ELSE LET h == read_hdr_file(f) IN
             [err |-> h.err,
              basename |-> CHOOSE b \in found : TRUE,
              orig |-> h.hdr, opened |-> 1]

ErdSampleArgs == (-1)..(MaxSam + 1)

KNoCall ==
    [op |-> "none", n_samples |-> 0, status |-> "idle", err |-> "", at |-> "",
     val |-> NoData, rows |-> 0, opened |-> 0, ret |-> <<>>, none |-> FALSE,
     tell |-> 0, ktlx_dir |-> NoDir]

Outcome(c, err) == [c EXCEPT !.status = IF err = "" THEN "returned" ELSE "raised",
                             !.err = err]

InitKtlx ==
    /\ file \in KtlxFiles
    /\ ext = file.kind
    /\ BOData = Unset
    /\ factor = Unset
    /\ nev = NevIdle
    /\ call = KNoCall
    /\ handles = 0
    /\ seen = <<>>

call_read_hdr_file ==
    /\ Idle
    /\ file.kind = ".erd"
    /\ LET r == read_hdr_file(file) IN
       call' = Outcome([KNoCall EXCEPT !.op = "_read_hdr_file", !.opened = 1,
                                       !.ret = r.hdr], r.err)
    /\ handles' = close_file(open_file(handles))
    /\ UNCHANGED <<file, ext, BOData, factor, nev, seen>>

call_read_erd(n_samples) ==
    /\ Idle
    /\ file.kind = ".erd"
    /\ LET r == read_erd(file, n_samples) IN
       /\ call' = Outcome([KNoCall EXCEPT !.op = "_read_erd", !.n_samples = n_samples,
                                          !.opened = r.opened, !.at = r.at,
                                          !.val = r.val, !.rows = r.rows,
                                          !.tell = r.tell], r.err)
       /\ handles' = IF r.opened = 2
                     THEN close_file(open_file(close_file(open_file(handles))))
                     ELSE close_file(open_file(handles))
       /\ seen' = IF r.err # "" THEN seen
                  ELSE IF seen = <<>>
                  THEN <<[n_samples |-> n_samples, val |-> r.val, later |-> 0]>>
                  ELSE <<[seen[1] EXCEPT !.later = Min(@ + 1, 2)]>>
    /\ UNCHANGED <<file, ext, BOData, factor, nev>>

call_read_stc ==
    /\ Idle
    /\ file.kind = ".stc"
    /\ LET r == read_stc(file) IN
       call' = Outcome([KNoCall EXCEPT !.op = "_read_stc", !.opened = 1, !.ret = r],
                       r.err)
    /\ handles' = close_file(open_file(handles))
    /\ UNCHANGED <<file, ext, BOData, factor, nev, seen>>

call_read_snc ==
    /\ Idle
    /\ file.kind = ".snc"
    /\ LET r == read_snc(file) IN
       call' = Outcome([KNoCall EXCEPT !.op = "_read_snc", !.opened = 1, !.ret = r],
                       r.err)
    /\ handles' = close_file(open_file(handles))
    /\ UNCHANGED <<file, ext, BOData, factor, nev, seen>>

call_read_ent ==
    /\ Idle
    /\ file.kind = ".ent"
    /\ LET r == read_ent(file) IN
       call' = Outcome([KNoCall EXCEPT !.op = "_read_ent", !.opened = 1, !.ret = r],
                       r.err)
    /\ handles' = close_file(open_file(handles))
    /\ UNCHANGED <<file, ext, BOData, factor, nev, seen>>

(* Ktlx.__init__: `isinstance(Ktlx_dir, str)` is evaluated first; a name    *)
(* that is neither a parameter nor bound in the module raises NameError    *)
Ktlx_init(ktlx_dir) ==
    /\ Idle
    /\ file.kind = ".erd"
    /\ LET c0 == [KNoCall EXCEPT !.op = "Ktlx.__init__", !.ktlx_dir = ktlx_dir] IN
       IF ~name_bound("Ktlx_dir")
       THEN /\ call' = Outcome(c0, "NameError")
            /\ handles' = handles
       ELSE IF ~ktlx_dir.is_str
       THEN /\ call' = Outcome(c0, "")
            /\ handles' = handles
       ELSE LET r == read_hdr_dir(ktlx_dir, file) IN
            /\ call' = Outcome([c0 EXCEPT !.opened = r.opened,
                                          !.ret = [ktlx_dir |-> ktlx_dir,
                                                   basename |-> r.basename,
                                                   orig |-> r.orig]], r.err)
            /\ handles' = IF r.opened = 1 THEN close_file(open_file(handles))
                                          ELSE handles
    /\ UNCHANGED <<file, ext, BOData, factor, nev, seen>>

(* Ktlx.return_dat: the body is `pass`, the call returns None *)
Ktlx_return_dat(chan, begsam, endsam) ==
    /\ Idle
    /\ call' = [KNoCall EXCEPT !.op = "Ktlx.return_dat", !.status = "returned",
                               !.none = TRUE, !.ret = <<chan, begsam, endsam>>]
    /\ UNCHANGED <<file, ext, BOData, factor, nev, handles, seen>>

KtlxReturn ==
    /\ call.status \in {"returned", "raised"}
    /\ call' = KNoCall
    /\ UNCHANGED <<file, ext, BOData, factor, nev, handles, seen>>

NextKtlx ==
    \/ call_read_hdr_file
    \/ \E n_samples \in ErdSampleArgs : call_read_erd(n_samples)
    \/ call_read_stc
    \/ call_read_snc
    \/ call_read_ent
    \/ \E ktlx_dir \in KtlxDirs : Ktlx_init(ktlx_dir)
    \/ \E chan \in {Scalar(0), List(<<0, 1>>)}, begsam \in 0..1, endsam \in 0..1 :
          Ktlx_return_dat(chan, begsam, endsam)
    \/ KtlxReturn

SpecKtlx == InitKtlx /\ [][NextKtlx]_vars

(* both decoders and all the parsers, each on a file of its own format *)
KtlxExts == {".erd", ".stc", ".snc", ".ent"}
InitAll == Init \/ InitKtlx
NextAll ==
    \/ ext \notin KtlxExts /\ Next
    \/ ext \in KtlxExts /\ NextKtlx
SpecAll == InitAll /\ [][NextAll]_vars

(***************************************************************************)
(* Properties of the segmented-format readers.                             *)
(***************************************************************************)
ErdReturned == call.op = "_read_erd" /\ call.status = "returned"
ErdRows == Min(call.rows, Len(file.rows))    \* rows decoded that the file holds whole
SignedField(fld) ==
    IF fld.wide
    THEN LET u == fld.raw[1] + 256 * fld.raw[2] IN IF u >= 32768 THEN u - 65536 ELSE u
    ELSE IF fld.raw[1] >= 128 THEN fld.raw[1] - 256 ELSE fld.raw[1]
Value(c, i) == call.val.data[c][i]
FieldAt(i, c) == file.rows[i].fields[c]
IsAbsolute(i, c) == Sentinel(file.file_schema, FieldAt(i, c))

(* C11: in a matrix _read_erd returned, for every row i >= 1 (the second   *)
(* row on) and every channel whose field is not the absolute sentinel, the *)
(* value is the channel's value in row i-1 plus the field read as a signed *)
(* 8-bit integer (narrow, mask bit 0) or signed 16-bit integer (wide, mask *)
(* bit 1).                                                                 *)
C11_DeltaAddsToPreviousRow ==
    ErdReturned =>
        \A i \in 2..ErdRows : \A c \in 1..file.num_channels :
            ~IsAbsolute(i, c) => Value(c, i) = Value(c, i - 1) + SignedField(FieldAt(i, c))

C11_Witness ==
    /\ ErdReturned
    /\ ErdRows >= 2
    /\ \E c \in 1..file.num_channels, d \in 1..file.num_channels :
          /\ FieldAt(2, c).wide /\ ~IsAbsolute(2, c) /\ Value(c, 1) # 0
          /\ ~FieldAt(2, d).wide /\ ~IsAbsolute(2, d) /\ SignedField(FieldAt(2, d)) < 0

(* C12: within one row the k-th channel flagged absolute, in increasing    *)
(* channel order, gets the k-th 32-bit value of the block that follows all *)
(* the delta fields of the row, and a channel that is not flagged keeps    *)
(* its delta-decoded value.                                                *)
C12_AbsoluteBlockInFlagOrder ==
    ErdReturned =>
        \A i \in 1..ErdRows : \A c \in 1..file.num_channels :
            LET k == Cardinality({b \in 1..c : IsAbsolute(i, b)}) IN
            IF IsAbsolute(i, c)
            THEN Value(c, i) = file.rows[i].abs[k]
            ELSE Value(c, i) = (IF i = 1 THEN 0 ELSE Value(c, i - 1))
                                   + SignedField(FieldAt(i, c))

C12_Witness ==
    /\ ErdReturned
    /\ ErdRows >= 2
    /\ file.num_channels >= 2
    /\ IsAbsolute(1, 1) /\ IsAbsolute(1, 2) /\ Value(1, 1) # Value(2, 1)
    /\ \E c \in 1..file.num_channels, d \in 1..file.num_channels :
          c < d /\ ~IsAbsolute(2, c) /\ IsAbsolute(2, d)

(* C13: a raw-segment decode that returns a matrix has decoded every       *)
(* requested row from the file: a missing event byte (end of the file      *)
(* before n_samples rows) fails the decode like a nonzero event byte does. *)
C13_EveryRequestedRowDecoded ==
    /\ ErdReturned => call.rows = call.n_samples
    /\ (call.op = "_read_erd" /\ call.at = "event") =>
           call.status = "raised" /\ call.err = "AssertionError"

EntDone == call.op = "_read_ent" /\ Finished
WellFormedEnt ==
    /\ file.ended
    /\ \A k \in 1..Len(file.notes) :
          file.notes[k].length = note_hdr_length + Len(file.notes[k].text) + 2
Translates(n) == eval_note(translate(n.text)).err = ""
RECURSIVE Kept(_)
Kept(ns) ==
    IF ns = <<>> THEN <<>>
    ELSE IF Translates(ns[1])
    THEN <<[type |-> ns[1].type, length |-> ns[1].length,
            value |-> eval_note(translate(ns[1].text)).value]>> \o Kept(Tail(ns))
    ELSE Kept(Tail(ns))

(* C14: parsing an annotation file whose records carry their true length   *)
(* and that ends with a type-0 header returns, without an error, exactly   *)
(* the records whose payload translates, in file order: a record whose     *)
(* payload fails translation is left out, the records after it are still   *)
(* parsed, and nothing after the type-0 header is read.                    *)
C14_FailedNoteOmitted ==
    (EntDone /\ WellFormedEnt) =>
        /\ call.status = "returned"
        /\ call.ret.allnote = Kept(file.notes)
        /\ call.ret.tell = Len(Concat([k \in 1..Len(file.notes) |-> NoteBytes(file.notes[k])]))
                               + note_hdr_length

C14_Witness ==
    /\ EntDone /\ WellFormedEnt /\ call.status = "returned"
    /\ \E j \in 1..Len(file.notes), k \in 1..Len(file.notes) :
          j < k /\ ~Translates(file.notes[j]) /\ Translates(file.notes[k])
    /\ call.ret.tell < Len(file.body)

HdrDone == call.op = "_read_hdr_file" /\ Finished

(* C15: _read_hdr_file returns a header only for a file whose schema is 7, *)
(* 8 or 9 and whose base schema is 1; the header it returns was read after *)
(* exactly 352 bytes of prefix, always holds the schema >= 7 fields, and   *)
(* holds the two 1024-entry arrays exactly when the schema is 8 or 9.      *)
C15_GenericHeaderGate ==
    HdrDone =>
        /\ (file.file_schema \notin {7, 8, 9} \/ file.base_schema # 1) =>
               call.status = "raised"
        /\ call.status = "returned" =>
               /\ call.ret.file_schema \in {7, 8, 9}
               /\ call.ret.base_schema = 1
               /\ call.ret.prefix = 352
               /\ Schema7Keys \subseteq call.ret.keys
               /\ IF call.ret.file_schema \in {8, 9}
                  THEN Schema8Keys \subseteq call.ret.keys
                  ELSE Schema8Keys \cap call.ret.keys = {}

C15_Witness ==
    /\ HdrDone /\ call.status = "returned"
    /\ call.ret.file_schema = 9
    /\ "frequency_factor" \in call.ret.keys

(* C16: a read request on the segmented-format decoder ends in an          *)
(* unsupported-operation error, whatever the selector and the range.       *)
C16_ReadRaisesUnsupported ==
    (call.op = "Ktlx.return_dat" /\ Finished) =>
        call.status = "raised" /\ call.err = "NotImplementedError"

(* C17: whenever no decoder operation is running (before a call, and after *)
(* it returned or raised, on every exit path) no file handle is open.      *)
C17_HandlesClosed ==
    call.status \in {"idle", "returned", "raised"} => handles = 0

C17_Witness ==
    /\ call.status = "raised"
    /\ call.opened = 2
    /\ call.err = "struct.error"
    /\ handles = 0

(* C18: every _read_erd call starts from previous value 0: in row 0 a      *)
(* channel that is not absolute holds its delta alone, for n_samples = 1   *)
(* as for longer reads, and a call with the n_samples of the first call    *)
(* returns the matrix the first call returned, whatever ran in between.    *)
C18_FreshStatePerCall ==
    ErdReturned =>
        /\ ErdRows >= 1 =>
               \A c \in 1..file.num_channels :
                   ~IsAbsolute(1, c) => Value(c, 1) = SignedField(FieldAt(1, c))
        /\ (seen # <<>> /\ seen[1].n_samples = call.n_samples) =>
               call.val = seen[1].val

C18_Witness ==
    /\ ErdReturned
    /\ call.n_samples = 1 /\ ErdRows = 1
    /\ \E c \in 1..file.num_channels : ~IsAbsolute(1, c) /\ Value(c, 1) # 0
    /\ seen # <<>> /\ seen[1].n_samples = 1 /\ seen[1].later = 2

StcDone == call.op = "_read_stc" /\ Finished
StcRegular ==
    /\ file.summary = SumSeq(StcSummaryWidths)
    /\ file.extra = 0
    /\ \A k \in 1..Len(file.entries) : 0 \in {file.entries[k].segment_name[j] :
                                                j \in 1..Len(file.entries[k].segment_name)}
StcEntriesInOrder ==
    /\ Len(call.ret.all_stamp) = Len(file.entries)
    /\ \A k \in 1..Len(file.entries) :
          /\ call.ret.all_stamp[k].segment_name = str(file.entries[k].segment_name)
          /\ call.ret.all_stamp[k].start_stamp = file.entries[k].start_stamp
          /\ call.ret.all_stamp[k].end_stamp = file.entries[k].end_stamp
          /\ call.ret.all_stamp[k].sample_num = file.entries[k].sample_num
          /\ call.ret.all_stamp[k].sample_span = file.entries[k].sample_span

(* C19 as stated: after the 352-byte prefix the parser consumes 16 bytes   *)
(* of summary fields and then records of 276 bytes each until the end of   *)
(* the file, one entry per record in file order.                           *)
C19_Summary16Records276 ==
    (StcDone /\ call.status = "returned") =>
        /\ call.ret.summary_read = 16
        /\ call.ret.entry_read = 276
        /\ call.ret.tell = 352 + 16 + 276 * Len(call.ret.all_stamp)
        /\ StcEntriesInOrder

(* C19 amended: after the 352-byte prefix the parser consumes 56 bytes of  *)
(* summary fields (two int32 and twelve int32 of padding) and then records *)
(* of 272 bytes each (256-byte name plus four int32) until the file        *)
(* position equals the end of the file, one entry per record in file order *)
(* (none when no record follows the summary); it returns exactly for the   *)
(* files of size 352 + 56 + 272 k whose names each hold a NUL.             *)
C19_Summary56Records272 ==
    StcDone =>
        /\ call.status = "returned" <=> StcRegular
        /\ call.status = "returned" =>
              /\ call.ret.summary_read = 56
              /\ call.ret.entry_read = 272
              /\ call.ret.tell = 352 + 56 + 272 * Len(call.ret.all_stamp)
              /\ call.ret.tell = stc_size(file)
              /\ StcEntriesInOrder

C19_Witness ==
    /\ StcDone /\ call.status = "returned"
    /\ Len(call.ret.all_stamp) >= 2
    /\ call.ret.all_stamp[1].start_stamp # call.ret.all_stamp[1].end_stamp

SncDone == call.op = "_read_snc" /\ Finished

(* C20: parsing a synchronization file made of the prefix and k >= 0       *)
(* records of 12 bytes returns k (stamp, time) pairs in file order, each   *)
(* time with (ft - 116444736000000000) div 10^7 whole seconds since the    *)
(* Unix epoch and ((ft - 116444736000000000) mod 10^7) div 10 microseconds *)
(* (116444736000000000 = 1164 * 10^14 + 4473600 * 10^7).                   *)
C20_OnePairPerRecord ==
    (SncDone /\ file.extra = 0) =>
        /\ call.status = "returned"
        /\ Len(call.ret.sampleStamp) = Len(file.records)
        /\ Len(call.ret.sampleTime) = Len(file.records)
        /\ \A k \in 1..Len(file.records) :
              /\ call.ret.sampleStamp[k] = file.records[k].stamp
              /\ call.ret.sampleTime[k].s =
                     (file.records[k].ft.hi - 1164) * 10000000
                         + file.records[k].ft.mid - 4473600
              /\ call.ret.sampleTime[k].microsecond = file.records[k].ft.lo \div 10

(***************************************************************************)
(* Frame of the extended-header loop of _read_neuralev (under SpecNev).    *)
(***************************************************************************)
FilterKeys ==
    {"HighFreqCorner", "HighFreqOrder", "HighFilterType",
     "LowFreqCorner", "LowFreqOrder", "LowFilterType"}
Carried(tag) ==
    IF tag = "NEUEVLBL" THEN {"ElectrodeLabel"}
    ELSE IF tag = "NEUEVFLT" THEN FilterKeys
    ELSE {}
Changed(old, new) == {k \in 1..Len(old) : new[k] # old[k]}

DescriptorsCounted ==
    ext = ".nev"
        => /\ Len(nev.ElectrodesInfo) = Cardinality(WavBefore(nev.i))
           /\ nev.pc = "returned"
                 => /\ Len(nev.ChannelID) = Cardinality(WavBefore(file.countExtHeader))
                    /\ \A k \in 1..Len(nev.ChannelID) :
                          nev.ChannelID[k] = file.records[WavRecord(k)].ElectrodeID

RecordFrame ==
    (nev.pc = "ext" /\ nev.i < file.countExtHeader /\ nev' # nev)
        => LET r == read_record(file, nev.i)
               EI == nev.ElectrodesInfo
               EJ == nev'.ElectrodesInfo
           IN  /\ r.PacketID = "NEUEVWAV"
                     => /\ Len(EJ) = Len(EI) + 1
                        /\ SubSeq(EJ, 1, Len(EI)) = EI
                        /\ EJ[Len(EJ)].ElectrodeID = r.ElectrodeID
               /\ r.PacketID \in {"NEUEVLBL", "NEUEVFLT", "DIGLABEL"}
                     => /\ Len(EJ) = Len(EI)
                        /\ Cardinality(Changed(EI, EJ)) <= 1
                        /\ \A k \in Changed(EI, EJ) :
                              /\ r.PacketID # "DIGLABEL"
                              /\ (1 <= r.ElectrodeID /\ r.ElectrodeID <= Len(EI))
                                    => k = r.ElectrodeID
                              /\ \A key \in DOMAIN EI[k] \ Carried(r.PacketID) :
                                    /\ key \in DOMAIN EJ[k]
                                    /\ EJ[k][key] = EI[k][key]
                              /\ DOMAIN EJ[k] \subseteq
                                    DOMAIN EI[k] \cup Carried(r.PacketID)

(* C21: at every point of the extended-header loop the number of           *)
(* descriptors equals the number of spike-channel records processed so     *)
(* far; a label, filter or digital-IO record neither adds nor removes a    *)
(* descriptor; a label or filter record changes one descriptor only, and   *)
(* that descriptor keeps every field the record does not carry; the final  *)
(* ChannelID list is the ElectrodeIDs of the spike-channel records in      *)
(* record order.                                                           *)
C21_FrameOfRecords == []DescriptorsCounted /\ [][RecordFrame]_vars

C21_Witness ==
    /\ nev.pc = "returned"
    /\ file.records = <<Wav(2, 65535), Lbl(1, <<97, 0, 0>>), Flt(1)>>
    /\ Len(nev.ElectrodesInfo) = 1
    /\ nev.ChannelID = <<2>>
    /\ nev.ElectrodesInfo[1].ElectrodeLabel = <<97>>
    /\ nev.ElectrodesInfo[1].HighFreqOrder = 4
    /\ nev.ElectrodesInfo[1].ConnectorBank = 65

(* C25: a label or filter record whose electrode value v is not in         *)
(* 1..(descriptors created so far) makes the open fail, and its fields are *)
(* attached to no descriptor: in particular v = 0 does not modify the last *)
(* descriptor.                                                             *)
C25_OutOfRangeTargetFails ==
    [][(nev.pc = "ext" /\ nev.i < file.countExtHeader /\ nev' # nev)
          => LET r == read_record(file, nev.i)
                 v == r.ElectrodeID
             IN  (r.PacketID \in {"NEUEVLBL", "NEUEVFLT"}
                     /\ ~(1 <= v /\ v <= Len(nev.ElectrodesInfo)))
                    => /\ nev'.pc = "raised"
                       /\ call'.status = "raised"
                       /\ nev'.ElectrodesInfo = nev.ElectrodesInfo]_vars

(***************************************************************************)
(* The scan of the data section of a continuous file (under Spec).         *)
(***************************************************************************)
TableAccepted ==
    /\ Continuous
    /\ file.FileTypeID = "NEURALCD"
    /\ \A i \in 1..Len(file.ExtHdr) : file.ExtHdr[i].Type = "CC"
OnePacket(N) == file.tail = Packet(N, N * Len(file.ExtHdr))

(* C22: when the data section is one well-formed packet (0x01, a 32-bit    *)
(* timestamp, a 32-bit count N, N * channel_count samples) right after the *)
(* electrode table, BOData is the end of the table plus 9 and n_samples is *)
(* N; and for any file with at least one byte after the table the scan     *)
(* terminates with BOData recorded.                                        *)
C22_ScanRecordsBOData ==
    (call.op = "return_hdr" /\ Finished /\ TableAccepted /\ Len(file.tail) >= 1)
        => /\ call.at # "data"
           /\ BOData.set
           /\ \A N \in 0..MaxSam :
                 OnePacket(N)
                    => /\ BOData.v = EOexH(file) + 9
                       /\ call.status = "returned" => call.hdr.n_samples = N

(* C26: for every continuous file the open accepts, BOData plus            *)
(* n_samples * channel_count * 2 does not exceed the file size: a packet   *)
(* declaring more samples than remain does not inflate n_samples.          *)
C26_SamplesWithinFile ==
    (call.op = "return_hdr" /\ call.status = "returned" /\ Continuous)
        => BOData.v + call.hdr.n_samples * Len(file.ExtHdr) * 2 <= FileSize(file)

(***************************************************************************)
(* Ordering of the two operations of the continuous decoder (under Spec).  *)
(***************************************************************************)
OpenSucceeds == call.op = "return_hdr" /\ call.status = "returned"
ReadStep == call.op # "return_dat" /\ call'.op = "return_dat"

ReadNeedsOpen ==
    (call.op = "return_dat" /\ Finished)
        => /\ call.status = "returned" => Opened /\ Continuous
           /\ ~Opened => /\ call.status = "raised"
                         /\ call.opened = 0
                         /\ call.val = NoData

OrderingSteps ==
    /\ (~Opened /\ Opened') => OpenSucceeds'
    /\ (call.op # "return_hdr" /\ call'.op = "return_hdr" /\ call'.status = "raised")
          => ~Opened'
    /\ ReadStep => /\ BOData' = BOData
                   /\ factor' = factor
                   /\ file' = file
                   /\ ext' = ext

(* C28: return_dat returns data only on an object on which a return_hdr    *)
(* has succeeded; issued before any return_hdr, or after a return_hdr that *)
(* failed, it raises, before the file is touched; and return_dat leaves    *)
(* BOData, the scale factors and the file name unchanged.                  *)
C28_ReadOnlyAfterOpen == []ReadNeedsOpen /\ [][OrderingSteps]_vars

(* a read refused after an open that stored BOData and then failed on the  *)
(* scale factors                                                           *)
C28_Witness ==
    /\ call.op = "return_dat" /\ call.status = "raised"
    /\ call.err = "AttributeError"
    /\ BOData.set /\ ~factor.set

(***************************************************************************)
(* Layout of a row of raw data: mask bytes, field widths, sentinels        *)
(* (under SpecKtlx).                                                       *)
(***************************************************************************)
(* the smallest integer not below n_chan / 8 + 1/2 *)
MaskLen(n) == CHOOSE l \in 0..(n + 1) : 16 * l >= 2 * n + 8 /\ 16 * (l - 1) < 2 * n + 8
RowSize(q) ==
    1 + (IF file.file_schema = 7 THEN 0 ELSE MaskLen(file.num_channels))
      + SumSeq([c \in 1..file.num_channels |-> Len(FieldAt(q, c).raw)])
      + 4 * Len(file.rows[q].abs)
RECURSIVE RowsSize(_)
RowsSize(k) == IF k = 0 THEN 0 ELSE RowsSize(k - 1) + RowSize(k)
WholeRows == file.body # <<>> /\ Len(file.body) = RowsSize(Len(file.rows))
Decoded == Min(call.n_samples, Len(file.rows))
(* bit (c mod 8), least-significant first, of mask byte floor(c / 8) of    *)
(* row r, c counted from 0                                                 *)
MaskBitInFile(r, c) ==
    (file.body[RowsSize(r - 1) + 1 + (c \div 8) + 1] \div 2 ^ (c % 8)) % 2
Previous(c, r) == IF r = 1 THEN 0 ELSE Value(c, r - 1)

Signed8(byte) == IF byte >= 128 THEN byte - 256 ELSE byte
Flagged(r, c) ==
    IF file.file_schema = 7
    THEN FieldAt(r, c).raw = <<128>>
    ELSE MaskBitInFile(r, c - 1) = 1 /\ FieldAt(r, c).raw = <<255, 255>>
FlaggedUpTo(r, c) == {d \in 1..c : Flagged(r, d)}

(* C27: under schema 7 a channel is absolute exactly when its 1-byte field *)
(* is 0x80; under schema 8 and 9 exactly when its mask bit is 1 and its    *)
(* 2-byte field is 0xFFFF; a channel whose mask bit is 0 under schema 8    *)
(* and 9 is never absolute and is the previous value plus its byte as a    *)
(* signed 8-bit delta, whatever the byte.  An absolute channel takes the   *)
(* next 32-bit value of the row, and no other channel takes one.           *)
C27_SentinelByWidth ==
    (ErdReturned /\ WholeRows)
        => \A r \in 1..Decoded :
              /\ Len(file.rows[r].abs) = Cardinality(FlaggedUpTo(r, file.num_channels))
              /\ call.tell >= RowsSize(r)
              /\ \A c \in 1..file.num_channels :
                    /\ Flagged(r, c)
                          => Value(c, r) =
                                file.rows[r].abs[Cardinality(FlaggedUpTo(r, c))]
                    /\ ~Flagged(r, c)
                          => Value(c, r) = Previous(c, r) + SignedField(FieldAt(r, c))
                    /\ (file.file_schema \in {8, 9} /\ MaskBitInFile(r, c - 1) = 0)
                          => Value(c, r) = Previous(c, r) + Signed8(FieldAt(r, c).raw[1])

(* narrow bytes 0x80 and 0xFF decoded as deltas beside a wide sentinel *)
C27_Witness ==
    /\ ErdReturned /\ WholeRows
    /\ file.file_schema = 8 /\ file.num_channels = 2
    /\ Decoded = 2
    /\ FieldAt(1, 1) = Narrow(128) /\ FieldAt(1, 2) = Narrow(255)
    /\ FieldAt(2, 1) = Narrow(128) /\ FieldAt(2, 2) = Wide(65535)
    /\ Value(1, 1) = -128 /\ Value(2, 1) = -1
    /\ Value(1, 2) = -256 /\ Value(2, 2) = AbsVal(2, 1)

(***************************************************************************)
(* The constructor of the segmented-format decoder (under SpecKtlx).       *)
(***************************************************************************)
Resolvable(d) ==
    \/ ErdName(d.base, FALSE) \in d.erds
    \/ Cardinality({x \in d.erds : ~x.seg}) = 1

(* C24: constructing the decoder on a directory path given as a string     *)
(* resolves the basename of the recording (the directory's own name when   *)
(* <dir>/<basename(dir)>.erd exists, else the single .erd file not ending  *)
(* in _NNN.erd, IOError when there is not exactly one) and reads that      *)
(* file's generic header, which a following return_hdr reports.            *)
C24_ConstructorReadsHeader ==
    (call.op = "Ktlx.__init__" /\ Finished /\ call.ktlx_dir.is_str)
        => LET d == call.ktlx_dir IN
           /\ ~Resolvable(d) => call.status = "raised" /\ call.err = "IOError"
           /\ (Resolvable(d) /\ read_hdr_file(file).err = "")
                 => /\ call.status = "returned"
                    /\ call.ret.orig = read_hdr_file(file).hdr
                    /\ call.ret.basename \in {x.stem : x \in d.erds}

====
